---- MODULE Spec2Model ----
(***************************************************************************)
(* A model of the sokoban_engine package: the level parser, the static     *)
(* map, the bitboard primitives, the game state, move application, the     *)
(* reachability functions, the undo/redo stack and the Game facade with    *)
(* its clone.                                                              *)
(*                                                                         *)
(* Rows, columns, tile indices and directions are 0-based, as in the       *)
(* source; tuples of the source that are indexed by such a number are      *)
(* functions on 0..n-1, tuples that are only appended to and compared are  *)
(* sequences.  A bitboard is a natural number, bit i standing for tile i.  *)
(***************************************************************************)
EXTENDS Integers, Sequences, FiniteSets, TLC

\* Longest move history (executed plus undone records) the model explores.
MaxHistory == 4

\* clone() is called on games with at most this many records on their two
\* stacks together.
MaxCloneRecords == 2

\* Once there is a clone, a move is made on a game only while its executed
\* history is shorter than this.
MaxCloneHistory == 1

\* Where the reachability functions are tried on every placement of a level's
\* boxes, the boxes stand on tiles with an index below this.
MaxBoxTile == 12

\* The hashers tried are for at most this many tiles, the states hashed have
\* at most this many boxes
MaxZobristTiles == 4
MaxZobristBoxes == 3

\* Longest list of directions in a move-path request
MaxPath == 2

\* Most store and clear calls made on a transposition table
MaxTableCalls == 4

\* Threads of the server's pool that run requests at the same time
MaxThreads == 2

\* Longest executed history of a game of the server on which a request moves
MaxServerHistory == 2

\* Most games that load_level has replaced and that requests in progress
\* still hold
MaxOldGames == 1

\* Most requests that call the game a level was loaded with
MaxRequests == 3

----------------------------------------------------------------------------
\* core/direction.py, core/types.py

UP == 0
DOWN == 1
LEFT == 2
RIGHT == 3

Direction == <<UP, DOWN, LEFT, RIGHT>>

Directions == {Direction[k] : k \in 1..Len(Direction)}

WALL == 0
FLOOR == 1
GOAL == 2

SUCCESS_WALK == 1
SUCCESS_PUSH == 2
BLOCKED_WALL == 3
BLOCKED_BOX == 4
WIN == 5

\* The absent value (Python's None) of an optional state or record.
None == [none |-> TRUE]

opposite_direction(direction) ==
    CASE direction = UP -> DOWN
      [] direction = DOWN -> UP
      [] direction = LEFT -> RIGHT
      [] direction = RIGHT -> LEFT

\* DIRECTION_DELTAS: (row_delta, col_delta)
DIRECTION_DELTAS(direction) ==
    CASE direction = UP -> <<-1, 0>>
      [] direction = DOWN -> <<1, 0>>
      [] direction = LEFT -> <<0, -1>>
      [] direction = RIGHT -> <<0, 1>>

----------------------------------------------------------------------------
\* Helpers for Python built-ins

Range(s) == {s[k] : k \in 1..Len(s)}

Max(S) == CHOOSE x \in S : \A y \in S : y <= x

\* list.append(x) followed by sorted(): insert x into an ascending sequence
RECURSIVE InsertSorted(_, _)
InsertSorted(s, x) ==
    IF s = <<>> THEN <<x>>
    ELSE IF x < Head(s) THEN <<x>> \o s
    ELSE <<Head(s)>> \o InsertSorted(Tail(s), x)

\* sorted(seq) for a sequence of integers
RECURSIVE sorted(_)
sorted(s) == IF s = <<>> THEN <<>> ELSE InsertSorted(sorted(Tail(s)), Head(s))

\* 1 << n
Shl(n) == 2 ^ n

\* a & b, a | b, a & ~b on non-negative integers
RECURSIVE BitAnd(_, _)
BitAnd(a, b) ==
    IF a = 0 \/ b = 0 THEN 0
    ELSE (a % 2) * (b % 2) + 2 * BitAnd(a \div 2, b \div 2)

RECURSIVE BitOr(_, _)
BitOr(a, b) ==
    IF a = 0 THEN b
    ELSE IF b = 0 THEN a
    ELSE (IF a % 2 = 1 \/ b % 2 = 1 THEN 1 ELSE 0) + 2 * BitOr(a \div 2, b \div 2)

RECURSIVE BitAndNot(_, _)
BitAndNot(a, b) ==
    IF a = 0 THEN 0
    ELSE (IF a % 2 = 1 /\ b % 2 = 0 THEN 1 ELSE 0) + 2 * BitAndNot(a \div 2, b \div 2)

\* (x & -x).bit_length() - 1: the index of the lowest set bit of x > 0
RECURSIVE LowestBit(_)
LowestBit(x) == IF x % 2 = 1 THEN 0 ELSE 1 + LowestBit(x \div 2)

\* int.bit_count()
RECURSIVE bit_count(_)
bit_count(x) == IF x = 0 THEN 0 ELSE (x % 2) + bit_count(x \div 2)

\* The positions of the set bits of a non-negative integer
RECURSIVE SetBitsFrom(_, _)
SetBitsFrom(x, i) ==
    IF x = 0 THEN {}
    ELSE (IF x % 2 = 1 THEN {i} ELSE {}) \cup SetBitsFrom(x \div 2, i + 1)

SetBits(x) == SetBitsFrom(x, 0)

\* x & (1 << i) is non-zero: bit i of the non-negative integer x is set
TestBit(x, i) == (x \div Shl(i)) % 2 = 1

\* The integer whose set bits are the elements of a finite set of positions
RECURSIVE BitsOf(_)
BitsOf(S) == IF S = {} THEN 0 ELSE LET i == Max(S) IN Shl(i) + BitsOf(S \ {i})

\* a ^ b on non-negative integers
RECURSIVE BitXor(_, _)
BitXor(a, b) ==
    IF a = 0 THEN b
    ELSE IF b = 0 THEN a
    ELSE ((a + b) % 2) + 2 * BitXor(a \div 2, b \div 2)

----------------------------------------------------------------------------
\* 64-bit unsigned integers (the Zobrist keys, and the Py_uhash_t that the
\* built-in hash computes in).  Such an integer is the sequence of its eight
\* bytes, least significant byte first.

RECURSIVE ToBytes(_, _)
ToBytes(n, count) ==
    IF count = 0 THEN <<>> ELSE <<n % 256>> \o ToBytes(n \div 256, count - 1)

\* The 64-bit integer of a small integer, in two's complement when negative
Word64(n) == ToBytes(n, 8)

\* a ^ b
Xor64(a, b) == [k \in 1..8 |-> BitXor(a[k], b[k])]

\* (a + b) mod 2^64: byte k of the sum with the carry out of byte k - 1
Add64(a, b) ==
    LET s1 == a[1] + b[1]
        s2 == a[2] + b[2] + (s1 \div 256)
        s3 == a[3] + b[3] + (s2 \div 256)
        s4 == a[4] + b[4] + (s3 \div 256)
        s5 == a[5] + b[5] + (s4 \div 256)
        s6 == a[6] + b[6] + (s5 \div 256)
        s7 == a[7] + b[7] + (s6 \div 256)
        s8 == a[8] + b[8] + (s7 \div 256)
    IN <<s1 % 256, s2 % 256, s3 % 256, s4 % 256, s5 % 256, s6 % 256, s7 % 256, s8 % 256>>

\* (a * b) mod 2^64: byte k of the product is the sum of the a[i] * b[j] with
\* i + j = k + 1 and the carry out of byte k - 1
Mul64(a, b) ==
    LET s1 == a[1] * b[1]
        s2 == (s1 \div 256) + a[1] * b[2] + a[2] * b[1]
        s3 == (s2 \div 256) + a[1] * b[3] + a[2] * b[2] + a[3] * b[1]
        s4 == (s3 \div 256) + a[1] * b[4] + a[2] * b[3] + a[3] * b[2] + a[4] * b[1]
        s5 == (s4 \div 256) + a[1] * b[5] + a[2] * b[4] + a[3] * b[3] + a[4] * b[2] + a[5] * b[1]
        s6 == (s5 \div 256) + a[1] * b[6] + a[2] * b[5] + a[3] * b[4] + a[4] * b[3] + a[5] * b[2] + a[6] * b[1]
        s7 == (s6 \div 256) + a[1] * b[7] + a[2] * b[6] + a[3] * b[5] + a[4] * b[4] + a[5] * b[3] + a[6] * b[2] + a[7] * b[1]
        s8 == (s7 \div 256) + a[1] * b[8] + a[2] * b[7] + a[3] * b[6] + a[4] * b[5] + a[5] * b[4] + a[6] * b[3] + a[7] * b[2] + a[8] * b[1]
    IN <<s1 % 256, s2 % 256, s3 % 256, s4 % 256, s5 % 256, s6 % 256, s7 % 256, s8 % 256>>

\* (x << r) | (x >> (64 - r)) for 0 < r < 64 not a multiple of 8
Rotl64(x, r) ==
    LET q == r \div 8
        s == r % 8
        byte(k) == x[((k - 1) % 8) + 1]
    IN [k \in 1..8 |->
           ((byte(k - q + 8) * Shl(s)) % 256) + (byte(k - q - 1 + 8) \div Shl(8 - s))]

----------------------------------------------------------------------------
\* board/parser.py
\* A level is the list of its lines (level_string.strip("\n\r").split("\n")),
\* each line the sequence of its characters.

\* (cell_type, has_player, has_box, has_goal)
_parse_char(char) ==
    CASE char = "#" -> <<WALL, FALSE, FALSE, FALSE>>
      [] char \in {" ", "-", "_"} -> <<FLOOR, FALSE, FALSE, FALSE>>
      [] char = "." -> <<GOAL, FALSE, FALSE, TRUE>>
      [] char \in {"@", "&"} -> <<FLOOR, TRUE, FALSE, FALSE>>
      [] char = "+" -> <<GOAL, TRUE, FALSE, TRUE>>
      [] char \in {"$", "B"} -> <<FLOOR, FALSE, TRUE, FALSE>>
      [] char \in {"*", "X"} -> <<GOAL, FALSE, TRUE, TRUE>>
      [] OTHER -> <<FLOOR, FALSE, FALSE, FALSE>>

\* line.ljust(width)[col] of line `row`
CharAt(lines, row, col) ==
    IF col < Len(lines[row + 1]) THEN lines[row + 1][col + 1] ELSE " "

\* All cells of a height x width grid in row-major order
RowMajor(width, height) ==
    [k \in 1..(width * height) |-> <<(k - 1) \div width, (k - 1) % width>>]

OnBoundary(pos, width, height) ==
    pos[1] = 0 \/ pos[1] = height - 1 \/ pos[2] = 0 \/ pos[2] = width - 1

\* The breadth-first search of _flood_fill_exterior: the set it has collected
\* when its queue runs empty.
RECURSIVE FloodFill(_, _, _, _)
FloodFill(exterior, grid, width, height) ==
    LET next == {p \in (0..height - 1) \X (0..width - 1) :
                    /\ p \notin exterior
                    /\ grid[p[1]][p[2]] = FLOOR
                    /\ \E d \in Directions :
                          <<p[1] - DIRECTION_DELTAS(d)[1],
                            p[2] - DIRECTION_DELTAS(d)[2]>> \in exterior}
    IN IF next = {} THEN exterior
       ELSE FloodFill(exterior \cup next, grid, width, height)

_flood_fill_exterior(grid, width, height) ==
    FloodFill({p \in (0..height - 1) \X (0..width - 1) :
                  OnBoundary(p, width, height) /\ grid[p[1]][p[2]] = FLOOR},
              grid, width, height)

_mark_exterior_as_wall(grid, width, height) ==
    LET exterior == _flood_fill_exterior(grid, width, height)
    IN [row \in 0..height - 1 |-> [col \in 0..width - 1 |->
          IF <<row, col>> \in exterior THEN WALL ELSE grid[row][col]]]

\* parse_level: a ParsedLevel, or [error |-> message] where the source raises
\* ParseError.
parse_level(lines) ==
    LET height == Len(lines)
        width == Max({Len(lines[k]) : k \in 1..Len(lines)})
        cells == RowMajor(width, height)
        parsed(p) == _parse_char(CharAt(lines, p[1], p[2]))
        grid == [row \in 0..height - 1 |-> [col \in 0..width - 1 |->
                    parsed(<<row, col>>)[1]]]
        players == SelectSeq(cells, LAMBDA p : parsed(p)[2])
        boxes == SelectSeq(cells, LAMBDA p : parsed(p)[3])
        goals == SelectSeq(cells, LAMBDA p : parsed(p)[4])
    IN IF Len(players) > 1 THEN [error |-> "Multiple players"]
       ELSE IF Len(players) = 0 THEN [error |-> "No player found in level"]
       ELSE IF Len(boxes) # Len(goals) THEN [error |-> "Box count != goal count"]
       ELSE IF Len(boxes) = 0 THEN [error |-> "No boxes found in level"]
       ELSE [width |-> width,
             height |-> height,
             grid |-> _mark_exterior_as_wall(grid, width, height),
             player_position |-> players[1],
             box_positions |-> boxes,
             goal_positions |-> goals]

----------------------------------------------------------------------------
\* board/tile_index.py, board/static_map.py

\* (position_to_index, index_to_position, num_floor_tiles)
build_tile_index(grid, width, height) ==
    LET cells == RowMajor(width, height)
        passable == SelectSeq(cells, LAMBDA p : grid[p[1]][p[2]] # WALL)
        \* current_index when the scan reaches cell (row, col)
        before(row, col) ==
            Cardinality({k \in 1..Len(cells) :
                            /\ k < row * width + col + 1
                            /\ grid[cells[k][1]][cells[k][2]] # WALL})
    IN <<[row \in 0..height - 1 |-> [col \in 0..width - 1 |->
            IF grid[row][col] = WALL THEN -1 ELSE before(row, col)]],
         [i \in 0..Len(passable) - 1 |-> passable[i + 1]],
         Len(passable)>>

\* _build_floor_mask without the subtraction
_build_floor_mask_single_bit(num_floor_tiles) == Shl(num_floor_tiles)

_build_floor_mask(num_floor_tiles) == Shl(num_floor_tiles) - 1

RECURSIVE _build_goal_mask(_, _)
_build_goal_mask(goal_positions, position_to_index) ==
    IF goal_positions = <<>> THEN 0
    ELSE LET pos == goal_positions[Len(goal_positions)]
         IN BitOr(_build_goal_mask(SubSeq(goal_positions, 1, Len(goal_positions) - 1),
                                   position_to_index),
                  Shl(position_to_index[pos[1]][pos[2]]))

_get_neighbor_index(row, col, position_to_index, width, height) ==
    IF 0 <= row /\ row < height /\ 0 <= col /\ col < width
    THEN position_to_index[row][col]
    ELSE -1

\* _build_neighbors with the columns of LEFT and RIGHT exchanged
_build_neighbors_left_is_right(index_to_position, position_to_index, width, height, num_floor_tiles) ==
    [tile_idx \in 0..num_floor_tiles - 1 |->
        LET row == index_to_position[tile_idx][1]
            col == index_to_position[tile_idx][2]
        IN [d \in Directions |->
              CASE d = UP -> _get_neighbor_index(row - 1, col, position_to_index, width, height)
                [] d = DOWN -> _get_neighbor_index(row + 1, col, position_to_index, width, height)
                [] d = LEFT -> _get_neighbor_index(row, col + 1, position_to_index, width, height)
                [] d = RIGHT -> _get_neighbor_index(row, col - 1, position_to_index, width, height)]]

\* _build_neighbors whose DOWN neighbor skips a row
_build_neighbors_down_skips_row(index_to_position, position_to_index, width, height, num_floor_tiles) ==
    [tile_idx \in 0..num_floor_tiles - 1 |->
        LET row == index_to_position[tile_idx][1]
            col == index_to_position[tile_idx][2]
        IN [d \in Directions |->
              CASE d = UP -> _get_neighbor_index(row - 1, col, position_to_index, width, height)
                [] d = DOWN -> _get_neighbor_index(row + 2, col, position_to_index, width, height)
                [] d = LEFT -> _get_neighbor_index(row, col - 1, position_to_index, width, height)
                [] d = RIGHT -> _get_neighbor_index(row, col + 1, position_to_index, width, height)]]

_build_neighbors(index_to_position, position_to_index, width, height, num_floor_tiles) ==
    [tile_idx \in 0..num_floor_tiles - 1 |->
        LET row == index_to_position[tile_idx][1]
            col == index_to_position[tile_idx][2]
        IN [d \in Directions |->
              CASE d = UP -> _get_neighbor_index(row - 1, col, position_to_index, width, height)
                [] d = DOWN -> _get_neighbor_index(row + 1, col, position_to_index, width, height)
                [] d = LEFT -> _get_neighbor_index(row, col - 1, position_to_index, width, height)
                [] d = RIGHT -> _get_neighbor_index(row, col + 1, position_to_index, width, height)]]

StaticMap_from_parsed_level(parsed) ==
    LET idx == build_tile_index(parsed.grid, parsed.width, parsed.height)
    IN [width |-> parsed.width,
        height |-> parsed.height,
        num_floor_tiles |-> idx[3],
        position_to_index |-> idx[1],
        index_to_position |-> idx[2],
        grid |-> parsed.grid,
        floor_mask |-> _build_floor_mask(idx[3]),
        goal_mask |-> _build_goal_mask(parsed.goal_positions, idx[1]),
        neighbors |-> _build_neighbors(idx[2], idx[1], parsed.width, parsed.height, idx[3]),
        goal_positions |-> parsed.goal_positions]

\* self.neighbors[tile_index][direction]; a negative tile_index counts from
\* the end of the tuple, as Python indexing does.
get_neighbor(static_map, tile_index, direction) ==
    static_map.neighbors[IF tile_index < 0
                         THEN static_map.num_floor_tiles + tile_index
                         ELSE tile_index][direction]

----------------------------------------------------------------------------
\* state/bitboard.py

has_box(bitboard, tile_index) == BitAnd(bitboard, Shl(tile_index)) # 0

\* move_box that sets the destination bit without clearing the source bit
move_box_keeps_source(bitboard, from_index, to_index) ==
    BitOr(bitboard, Shl(to_index))

move_box(bitboard, from_index, to_index) ==
    BitOr(BitAndNot(bitboard, Shl(from_index)), Shl(to_index))

count_boxes(bitboard) == bit_count(bitboard)

BitboardOps_boxes_on_goals(box_bitboard, goal_mask) ==
    bit_count(BitAnd(box_bitboard, goal_mask))

\* all_boxes_on_goals that is satisfied by one box on a goal
all_boxes_on_goals_any(box_bitboard, goal_mask) ==
    BitAnd(box_bitboard, goal_mask) # 0

all_boxes_on_goals(box_bitboard, goal_mask) ==
    BitAnd(box_bitboard, goal_mask) = box_bitboard

RECURSIVE from_indices(_)
from_indices(indices) ==
    IF indices = <<>> THEN 0
    ELSE BitOr(from_indices(SubSeq(indices, 1, Len(indices) - 1)),
               Shl(indices[Len(indices)]))

RECURSIVE to_indices(_)
to_indices(bitboard) ==
    IF bitboard = 0 THEN <<>>
    ELSE LET idx == LowestBit(bitboard)
         IN <<idx>> \o to_indices(BitAndNot(bitboard, Shl(idx)))

----------------------------------------------------------------------------
\* state/game_state.py

GameState(player_index, box_indices, box_bitboard) ==
    [player_index |-> player_index,
     box_indices |-> box_indices,
     box_bitboard |-> box_bitboard]

\* GameState.__eq__
GameState_eq(a, b) ==
    a.player_index = b.player_index /\ a.box_indices = b.box_indices

\* hash(n) of an int with |n| < 2^61 - 1: n itself as a 64-bit word (two's
\* complement when negative), except that hash(-1) is -2
hash_int(n) == IF n = -1 THEN Word64(-2) ELSE Word64(n)

\* hash(t) of a tuple whose items have the hashes lanes[1..Len(lanes)]:
\* the interpreter's tuple hash (xxHash-style, in 64-bit arithmetic)
_PyHASH_XXPRIME_1 == <<135, 202, 235, 133, 177, 121, 55, 158>>
_PyHASH_XXPRIME_2 == <<79, 235, 212, 39, 61, 174, 178, 194>>
_PyHASH_XXPRIME_5 == <<197, 103, 86, 22, 47, 235, 212, 39>>

\* The accumulator after the first n lanes
RECURSIVE tuplehash_acc(_, _)
tuplehash_acc(lanes, n) ==
    IF n = 0 THEN _PyHASH_XXPRIME_5
    ELSE LET acc == Add64(tuplehash_acc(lanes, n - 1), Mul64(lanes[n], _PyHASH_XXPRIME_2))
         IN Mul64(Rotl64(acc, 31), _PyHASH_XXPRIME_1)

\* _PyHASH_XXPRIME_5 ^ 3527539
_PyHASH_LEN_MIX == Xor64(_PyHASH_XXPRIME_5, Word64(3527539))

hash_tuple(lanes) ==
    LET acc == Add64(tuplehash_acc(lanes, Len(lanes)),
                     Xor64(Word64(Len(lanes)), _PyHASH_LEN_MIX))
    IN IF acc = [k \in 1..8 |-> 255] THEN Word64(1546275796) ELSE acc

\* GameState.__hash__: hash((self.player_index, self.box_indices))
GameState_hash(self) ==
    hash_tuple(<<hash_int(self.player_index),
                 hash_tuple([k \in 1..Len(self.box_indices) |-> hash_int(self.box_indices[k])])>>)

GameState_copy(self) ==
    GameState(self.player_index, self.box_indices, self.box_bitboard)

from_positions(player_index, box_indices) ==
    LET sorted_boxes == sorted(box_indices)
    IN GameState(player_index, sorted_boxes, from_indices(sorted_boxes))

GameState_from_parsed_level(parsed, static_map) ==
    from_positions(
        static_map.position_to_index[parsed.player_position[1]][parsed.player_position[2]],
        [k \in 1..Len(parsed.box_positions) |->
            static_map.position_to_index[parsed.box_positions[k][1]][parsed.box_positions[k][2]]])

has_box_at(self, tile_index) == has_box(self.box_bitboard, tile_index)

is_solved(self, goal_mask) == all_boxes_on_goals(self.box_bitboard, goal_mask)

boxes_on_goals(self, goal_mask) ==
    BitboardOps_boxes_on_goals(self.box_bitboard, goal_mask)

\* update that takes the first box of the tuple for the pushed one
_update_box_indices_moves_first(box_indices, from_idx, to_idx) ==
    sorted(Append(Tail(box_indices), to_idx))

_update_box_indices(box_indices, from_idx, to_idx) ==
    sorted(Append(SelectSeq(box_indices, LAMBDA idx : idx # from_idx), to_idx))

\* with_move(new_player_index): a walk
with_move_walk(self, new_player_index) ==
    GameState(new_player_index, self.box_indices, self.box_bitboard)

\* with_move(new_player_index, pushed_box_from, pushed_box_to): a push
with_move_push(self, new_player_index, pushed_box_from, pushed_box_to) ==
    GameState(new_player_index,
              _update_box_indices(self.box_indices, pushed_box_from, pushed_box_to),
              move_box(self.box_bitboard, pushed_box_from, pushed_box_to))

----------------------------------------------------------------------------
\* state/zobrist.py

\* The values rng.randint(0, (1 << 64) - 1) returns in turn for
\* rng = random.Random(seed): the first 36 for seed 0 (the default), the
\* first 20 for seed 42
RandomDraws(seed) ==
    CASE seed = 0 -> <<
      <<130,   6, 231, 227,  85, 148, 170, 107>>,
      << 57,   6, 167, 200,  96,  61, 113, 212>>,
      <<135, 189, 193, 247,   4,  66,   2, 122>>,
      <<217, 220, 235,  55, 118,  40,  51, 129>>,
      << 41,  67, 159,  37, 217, 212, 101,  79>>,
      << 20, 167, 184, 217,  42, 146,  25, 175>>,
      << 87,  88, 222, 120,  30, 243,  79, 143>>,
      <<135,  17, 146,  90, 162, 226,  37, 111>>,
      <<154, 110, 119, 133, 195, 159, 175,  66>>,
      << 73, 157, 126, 234, 168,  60, 152,   3>>,
      <<236, 144,  62, 184, 209,  55,  16, 215>>,
      <<129,  22,  12, 171, 229, 107,  17, 160>>,
      << 42,  55,  27, 222,  34,  88,  72,  85>>,
      <<232,  51, 215, 222, 204, 188,  31,  16>>,
      << 79, 193, 193, 234,  79,  98,  72, 145>>,
      << 68,  34, 174, 114, 195, 237,  89,  23>>,
      <<  2, 230,  65, 125,  17,  55, 235,  27>>,
      << 73, 152, 243,  31, 106,  22,  37, 140>>,
      << 14, 232, 163,  73,   5, 205, 234, 113>>,
      <<109,  65, 166, 152,  33, 120,  69, 204>>,
      <<124, 251,  41,  81, 114, 221,  93, 147>>,
      <<204,   8,  83,  74,  84,   5,  18,  47>>,
      <<228, 172,  75, 210, 181, 129, 205,  47>>,
      << 51,  11, 147,  66, 124, 239, 253, 121>>,
      <<171,  99,  86,  33, 235,   5, 116, 224>>,
      <<241, 115, 141, 180,  80, 122,  74, 134>>,
      << 39,   9, 148, 133,  37, 230, 198, 207>>,
      << 65,  55, 116,  70, 129,  26,  88, 115>>,
      << 90,  90,  23, 203, 154, 112, 124,  91>>,
      <<245, 243,   6,  83, 134,  90, 223, 156>>,
      << 54,  73, 212,  85,   2,   1,  87, 216>>,
      <<128, 177, 164,  43, 221,  22,  33,  85>>,
      << 67, 174, 223, 208,  69, 216, 235,  15>>,
      <<  6, 139, 154, 178,  71, 139,   1,  56>>,
      << 88, 216,  39, 154, 236,  22,  59, 174>>,
      << 31, 167, 113, 147, 214,  92, 164,  30>> >>
      [] seed = 42 -> <<
      <<157, 121, 177, 163, 127,  49, 128,  28>>,
      <<251,  64, 214, 189,  87,  82, 104,  70>>,
      << 80, 225, 101, 228,  52,  36, 157, 139>>,
      <<105, 132,  42, 151, 153,  17,   3, 108>>,
      <<110, 202, 160,   7,  90, 105, 252,  23>>,
      <<179,  15, 203,   6, 166, 193, 173, 143>>,
      <<246,  72, 129, 139, 164, 166, 101, 107>>,
      << 42,  93, 255, 114, 172,  29, 218, 150>>,
      <<139, 213,  54, 207,  75, 119, 138, 222>>,
      << 11,  51,  65, 194, 189,  43,  74, 206>>,
      <<122,  67, 185, 178,  17, 117,  48, 108>>,
      <<137, 147,  34,  71,  48, 129, 205,  39>>,
      << 99, 234,  11, 245, 238,  89, 116, 195>>,
      <<237, 115,  42,  26,  17,  49, 190,  23>>,
      <<113, 123,  13,  88,   3, 202, 141, 154>>,
      <<102, 222, 156, 117, 133,  62,  70, 137>>,
      << 76,  29,  30, 249, 161, 140,  27, 236>>,
      <<232,  63,  44,  20, 241, 136,  82, 141>>,
      << 47, 247, 172, 226, 193, 210, 152, 220>>,
      <<142, 138,  87,  58, 138, 206, 231, 197>> >>

Seeds == {0, 42}

\* ZobristHasher(num_floor_tiles, seed): the player keys are drawn first,
\* then the box keys
ZobristHasher(num_floor_tiles, seed) ==
    [_player_keys |-> [i \in 0..(num_floor_tiles - 1) |-> RandomDraws(seed)[i + 1]],
     _box_keys |-> [i \in 0..(num_floor_tiles - 1) |->
                       RandomDraws(seed)[num_floor_tiles + i + 1]]]

\* for b in box_indices: h ^= self._box_keys[b]
RECURSIVE hash_state_loop(_, _, _)
hash_state_loop(self, h, box_indices) ==
    IF box_indices = <<>> THEN h
    ELSE hash_state_loop(self, Xor64(h, self._box_keys[Head(box_indices)]),
                         Tail(box_indices))

\* hash_state that leaves the last box out
hash_state_skips_last_box(self, player_index, box_indices) ==
    hash_state_loop(self, self._player_keys[player_index],
                    SubSeq(box_indices, 1, Len(box_indices) - 1))

hash_state(self, player_index, box_indices) ==
    hash_state_loop(self, self._player_keys[player_index], box_indices)

\* update_walk that takes the new player key for the old one
update_walk_keeps_old_player(self, current_hash, old_player, new_player) ==
    Xor64(Xor64(current_hash, self._player_keys[new_player]),
          self._player_keys[new_player])

update_walk(self, current_hash, old_player, new_player) ==
    Xor64(Xor64(current_hash, self._player_keys[old_player]),
          self._player_keys[new_player])

\* update_push that leaves the box's old key in
update_push_keeps_box_from(self, current_hash, old_player, new_player, box_from, box_to) ==
    Xor64(Xor64(Xor64(current_hash, self._player_keys[old_player]),
                self._player_keys[new_player]),
          self._box_keys[box_to])

update_push(self, current_hash, old_player, new_player, box_from, box_to) ==
    Xor64(Xor64(Xor64(Xor64(current_hash, self._player_keys[old_player]),
                      self._player_keys[new_player]),
                self._box_keys[box_from]),
          self._box_keys[box_to])

----------------------------------------------------------------------------
\* state/transposition.py
\* The table is its _table, a dict: a function from the hashes stored to
\* their data.

\* TranspositionTable()
TranspositionTable == [zobrist_hash \in {} |-> None]

TranspositionTable_contains(self, zobrist_hash) == zobrist_hash \in DOMAIN self

TranspositionTable_len(self) == Cardinality(DOMAIN self)

\* store that keeps the data a hash already has
TranspositionTable_store_keeps_first(self, zobrist_hash, data) ==
    [h \in DOMAIN self \cup {zobrist_hash} |-> IF h \in DOMAIN self THEN self[h] ELSE data]

\* store: self._table[zobrist_hash] = data
TranspositionTable_store(self, zobrist_hash, data) ==
    [h \in DOMAIN self \cup {zobrist_hash} |-> IF h = zobrist_hash THEN data ELSE self[h]]

\* lookup: self._table.get(zobrist_hash)
TranspositionTable_lookup(self, zobrist_hash) ==
    IF zobrist_hash \in DOMAIN self THEN self[zobrist_hash] ELSE None

TranspositionTable_clear(self) == [zobrist_hash \in {} |-> None]

----------------------------------------------------------------------------
\* logic/move.py

\* _apply_push that tests the win condition on the state before the push
_apply_push_checks_old_state(static_map, state, direction, box_idx) ==
    LET beyond_idx == get_neighbor(static_map, box_idx, direction)
    IN IF beyond_idx = -1
       THEN [new_state |-> None, result |-> BLOCKED_BOX]
       ELSE IF has_box(state.box_bitboard, beyond_idx)
       THEN [new_state |-> None, result |-> BLOCKED_BOX]
       ELSE LET new_state == with_move_push(state, box_idx, box_idx, beyond_idx)
            IN IF is_solved(state, static_map.goal_mask)
               THEN [new_state |-> new_state, result |-> WIN]
               ELSE [new_state |-> new_state, result |-> SUCCESS_PUSH]

_apply_push(static_map, state, direction, box_idx) ==
    LET beyond_idx == get_neighbor(static_map, box_idx, direction)
    IN IF beyond_idx = -1
       THEN [new_state |-> None, result |-> BLOCKED_BOX]
       ELSE IF has_box(state.box_bitboard, beyond_idx)
       THEN [new_state |-> None, result |-> BLOCKED_BOX]
       ELSE LET new_state == with_move_push(state, box_idx, box_idx, beyond_idx)
            IN IF is_solved(new_state, static_map.goal_mask)
               THEN [new_state |-> new_state, result |-> WIN]
               ELSE [new_state |-> new_state, result |-> SUCCESS_PUSH]

\* apply_move that reports a box it cannot push as a wall
apply_move_blocked_push_as_wall(static_map, state, direction) ==
    LET player_idx == state.player_index
        adjacent_idx == get_neighbor(static_map, player_idx, direction)
    IN IF adjacent_idx = -1
       THEN [new_state |-> None, result |-> BLOCKED_WALL]
       ELSE IF has_box(state.box_bitboard, adjacent_idx)
       THEN LET r == _apply_push(static_map, state, direction, adjacent_idx)
            IN IF r.new_state = None
               THEN [new_state |-> None, result |-> BLOCKED_WALL]
               ELSE r
       ELSE [new_state |-> with_move_walk(state, adjacent_idx),
             result |-> SUCCESS_WALK]

\* apply_move whose walk checks the win condition as a push does
apply_move_walk_wins(static_map, state, direction) ==
    LET player_idx == state.player_index
        adjacent_idx == get_neighbor(static_map, player_idx, direction)
    IN IF adjacent_idx = -1
       THEN [new_state |-> None, result |-> BLOCKED_WALL]
       ELSE IF has_box(state.box_bitboard, adjacent_idx)
       THEN _apply_push(static_map, state, direction, adjacent_idx)
       ELSE [new_state |-> with_move_walk(state, adjacent_idx),
             result |-> IF is_solved(state, static_map.goal_mask)
                        THEN WIN ELSE SUCCESS_WALK]

apply_move(static_map, state, direction) ==
    LET player_idx == state.player_index
        adjacent_idx == get_neighbor(static_map, player_idx, direction)
    IN IF adjacent_idx = -1
       THEN [new_state |-> None, result |-> BLOCKED_WALL]
       ELSE IF has_box(state.box_bitboard, adjacent_idx)
       THEN _apply_push(static_map, state, direction, adjacent_idx)
       ELSE [new_state |-> with_move_walk(state, adjacent_idx),
             result |-> SUCCESS_WALK]

\* can_move that does not look for a second box behind the box
can_move_ignores_second_box(static_map, state, direction) ==
    LET player_idx == state.player_index
        adjacent_idx == get_neighbor(static_map, player_idx, direction)
    IN IF adjacent_idx = -1 THEN FALSE
       ELSE IF ~has_box(state.box_bitboard, adjacent_idx) THEN TRUE
       ELSE get_neighbor(static_map, adjacent_idx, direction) # -1

can_move(static_map, state, direction) ==
    LET player_idx == state.player_index
        adjacent_idx == get_neighbor(static_map, player_idx, direction)
    IN IF adjacent_idx = -1 THEN FALSE
       ELSE IF ~has_box(state.box_bitboard, adjacent_idx) THEN TRUE
       ELSE LET beyond_idx == get_neighbor(static_map, adjacent_idx, direction)
            IN IF beyond_idx = -1 THEN FALSE
               ELSE ~has_box(state.box_bitboard, beyond_idx)

\* enumeration that walks the directions from RIGHT back to UP
get_legal_move_directions_reversed(static_map, state) ==
    SelectSeq(<<RIGHT, LEFT, DOWN, UP>>, LAMBDA d : can_move(static_map, state, d))

get_legal_move_directions(static_map, state) ==
    SelectSeq(Direction, LAMBDA d : can_move(static_map, state, d))

----------------------------------------------------------------------------
\* logic/reachability.py

\* _expand_reachable that adds every neighbor, passable or not
_expand_reachable_over_boxes(reachable, static_map, passable_mask) ==
    LET neighbor_idxs ==
            UNION {{static_map.neighbors[tile_idx][direction] :
                        direction \in Directions} : tile_idx \in SetBits(reachable)}
    IN BitOr(reachable, BitsOf({neighbor_idx \in neighbor_idxs : neighbor_idx # -1}))

\* _expand_reachable: for every set bit tile_idx of reachable and every
\* direction, the neighbor's bit is ORed into expanded when the neighbor is not
\* the sentinel and is passable.  The bits the two loops add are collected as
\* a set and ORed in together.
_expand_reachable(reachable, static_map, passable_mask) ==
    LET neighbor_idxs ==
            UNION {{static_map.neighbors[tile_idx][direction] :
                        direction \in Directions} : tile_idx \in SetBits(reachable)}
        added == {neighbor_idx \in neighbor_idxs :
                     neighbor_idx # -1 /\ TestBit(passable_mask, neighbor_idx)}
    IN BitOr(reachable, BitsOf(added))

\* The `while True` loop of compute_reachability: expand until nothing is added
RECURSIVE compute_reachability_loop(_, _, _)
compute_reachability_loop(reachable, static_map, passable_mask) ==
    LET expanded == _expand_reachable(reachable, static_map, passable_mask)
    IN IF expanded = reachable THEN reachable
       ELSE compute_reachability_loop(expanded, static_map, passable_mask)

\* compute_reachability that expands once and stops
compute_reachability_one_step(static_map, player_index, box_bitboard) ==
    _expand_reachable(Shl(player_index), static_map,
                      BitAndNot(static_map.floor_mask, box_bitboard))

\* The passes of the `while True` loop of compute_reachability: the value of
\* `expanded` in each iteration, the last being the one that breaks
RECURSIVE compute_reachability_passes(_, _, _)
compute_reachability_passes(reachable, static_map, passable_mask) ==
    LET expanded == _expand_reachable(reachable, static_map, passable_mask)
    IN IF expanded = reachable THEN <<expanded>>
       ELSE <<expanded>> \o compute_reachability_passes(expanded, static_map, passable_mask)

compute_reachability(static_map, player_index, box_bitboard) ==
    LET reachable == Shl(player_index)
        passable_mask == BitAndNot(static_map.floor_mask, box_bitboard)
    IN compute_reachability_loop(reachable, static_map, passable_mask)

\* The `for direction in Direction` loop of compute_reachability_fast for
\* tile tile_idx, from the k-th direction on; acc holds new_frontier and
\* reachable
RECURSIVE compute_reachability_fast_directions(_, _, _, _, _)
compute_reachability_fast_directions(static_map, passable_mask, tile_idx, k, acc) ==
    IF k > Len(Direction) THEN acc
    ELSE LET neighbor_idx == static_map.neighbors[tile_idx][Direction[k]]
         IN IF neighbor_idx = -1
            THEN compute_reachability_fast_directions(static_map, passable_mask,
                                                      tile_idx, k + 1, acc)
            ELSE LET neighbor_bit == Shl(neighbor_idx)
                 IN IF /\ BitAnd(passable_mask, neighbor_bit) # 0
                       /\ BitAnd(acc.reachable, neighbor_bit) = 0
                    THEN compute_reachability_fast_directions(
                             static_map, passable_mask, tile_idx, k + 1,
                             [new_frontier |-> BitOr(acc.new_frontier, neighbor_bit),
                              reachable |-> BitOr(acc.reachable, neighbor_bit)])
                    ELSE compute_reachability_fast_directions(
                             static_map, passable_mask, tile_idx, k + 1, acc)

\* The `while remaining` loop: the tiles of the frontier from the lowest up
RECURSIVE compute_reachability_fast_remaining(_, _, _, _)
compute_reachability_fast_remaining(static_map, passable_mask, remaining, acc) ==
    IF remaining = 0 THEN acc
    ELSE LET tile_idx == LowestBit(remaining)
             done == compute_reachability_fast_directions(static_map, passable_mask,
                                                          tile_idx, 1, acc)
         IN compute_reachability_fast_remaining(
                static_map, passable_mask, BitAnd(remaining, remaining - 1), done)

\* The `while frontier` loop: the frontiers of its iterations in order, and
\* the value of reachable when the frontier is empty
RECURSIVE compute_reachability_fast_frontiers(_, _, _, _)
compute_reachability_fast_frontiers(static_map, passable_mask, frontier, reachable) ==
    IF frontier = 0 THEN [frontiers |-> <<>>, reachable |-> reachable]
    ELSE LET acc == compute_reachability_fast_remaining(
                        static_map, passable_mask, frontier,
                        [new_frontier |-> 0, reachable |-> reachable])
             rest == compute_reachability_fast_frontiers(
                         static_map, passable_mask, acc.new_frontier, acc.reachable)
         IN [frontiers |-> <<frontier>> \o rest.frontiers,
             reachable |-> rest.reachable]

\* compute_reachability_fast that takes every floor tile for passable
compute_reachability_fast_over_boxes(static_map, player_index, box_bitboard) ==
    compute_reachability_fast_frontiers(static_map, static_map.floor_mask,
                                        Shl(player_index), Shl(player_index)).reachable

compute_reachability_fast(static_map, player_index, box_bitboard) ==
    LET reachable == Shl(player_index)
        passable_mask == BitAndNot(static_map.floor_mask, box_bitboard)
    IN compute_reachability_fast_frontiers(static_map, passable_mask,
                                           reachable, reachable).reachable

\* The body of the `for direction in Direction` loop of get_legal_pushes:
\* TRUE when the pair (box_idx, direction) is appended
get_legal_pushes_appends(static_map, reachable, box_bitboard, box_idx, direction) ==
    LET opposite_dir == opposite_direction(direction)
        push_from_idx == static_map.neighbors[box_idx][opposite_dir]
    IN IF push_from_idx = -1 THEN FALSE
       ELSE IF ~TestBit(reachable, push_from_idx) THEN FALSE
       ELSE LET push_to_idx == static_map.neighbors[box_idx][direction]
            IN IF push_to_idx = -1 THEN FALSE
               ELSE IF TestBit(box_bitboard, push_to_idx) THEN FALSE
               ELSE TRUE

\* The `for direction in Direction` loop for one box, from the k-th direction
\* on: the pairs it appends, in the order it appends them
RECURSIVE get_legal_pushes_directions(_, _, _, _, _)
get_legal_pushes_directions(static_map, reachable, box_bitboard, box_idx, k) ==
    IF k > Len(Direction) THEN <<>>
    ELSE (IF get_legal_pushes_appends(static_map, reachable, box_bitboard,
                                      box_idx, Direction[k])
          THEN <<(<<box_idx, Direction[k]>>)>>
          ELSE <<>>)
         \o get_legal_pushes_directions(static_map, reachable, box_bitboard,
                                        box_idx, k + 1)

\* The `while remaining` loop of get_legal_pushes, lowest set bit first: the
\* pairs it appends, in the order it appends them.  remaining &= remaining - 1
\* clears the lowest set bit, the one of box_idx.
RECURSIVE get_legal_pushes_boxes(_, _, _, _)
get_legal_pushes_boxes(remaining, static_map, reachable, box_bitboard) ==
    IF remaining = 0 THEN <<>>
    ELSE LET box_idx == LowestBit(remaining)
         IN get_legal_pushes_directions(static_map, reachable, box_bitboard, box_idx, 1)
            \o get_legal_pushes_boxes(remaining - Shl(box_idx),
                                      static_map, reachable, box_bitboard)

\* get_legal_pushes that lets the player stand on any floor tile
get_legal_pushes_ignores_reachability(static_map, player_index, box_bitboard) ==
    get_legal_pushes_boxes(box_bitboard, static_map, static_map.floor_mask,
                           box_bitboard)

\* get_legal_pushes that goes through the directions first and the boxes inside
get_legal_pushes_direction_major(static_map, player_index, box_bitboard) ==
    LET reachable == compute_reachability(static_map, player_index, box_bitboard)
        boxes == to_indices(box_bitboard)
        pairs == [n \in 1..(Len(Direction) * Len(boxes)) |->
                    <<boxes[((n - 1) % Len(boxes)) + 1],
                      Direction[((n - 1) \div Len(boxes)) + 1]>>]
    IN SelectSeq(pairs, LAMBDA p :
           get_legal_pushes_appends(static_map, reachable, box_bitboard, p[1], p[2]))

get_legal_pushes(static_map, player_index, box_bitboard) ==
    LET reachable == compute_reachability(static_map, player_index, box_bitboard)
    IN get_legal_pushes_boxes(box_bitboard, static_map, reachable, box_bitboard)

----------------------------------------------------------------------------
\* history/move_record.py, history/undo_stack.py

MoveRecord(direction, was_push) == [direction |-> direction, was_push |-> was_push]

\* UndoStack(): the two stacks grow at the end of their sequence
UndoStack == [history |-> <<>>, redo_stack |-> <<>>, push_count |-> 0]

\* push that leaves the redo stack as it is
UndoStack_push_keeps_redo(self, record) ==
    [history |-> Append(self.history, record),
     redo_stack |-> self.redo_stack,
     push_count |-> IF record.was_push THEN self.push_count + 1 ELSE self.push_count]

\* push that counts every record as a push
UndoStack_push_counts_walks(self, record) ==
    [history |-> Append(self.history, record),
     redo_stack |-> <<>>,
     push_count |-> self.push_count + 1]

UndoStack_push(self, record) ==
    [history |-> Append(self.history, record),
     redo_stack |-> <<>>,
     push_count |-> IF record.was_push THEN self.push_count + 1 ELSE self.push_count]

\* pop that leaves the push count as it is
UndoStack_pop_keeps_push_count(self) ==
    IF self.history = <<>> THEN [stack |-> self, record |-> None]
    ELSE LET record == self.history[Len(self.history)]
         IN [stack |->
               [history |-> SubSeq(self.history, 1, Len(self.history) - 1),
                redo_stack |-> Append(self.redo_stack, record),
                push_count |-> self.push_count],
             record |-> record]

\* pop and redo_pop: the stack after the call and the record returned
UndoStack_pop(self) ==
    IF self.history = <<>> THEN [stack |-> self, record |-> None]
    ELSE LET record == self.history[Len(self.history)]
         IN [stack |->
               [history |-> SubSeq(self.history, 1, Len(self.history) - 1),
                redo_stack |-> Append(self.redo_stack, record),
                push_count |-> IF record.was_push THEN self.push_count - 1
                               ELSE self.push_count],
             record |-> record]

UndoStack_redo_pop(self) ==
    IF self.redo_stack = <<>> THEN [stack |-> self, record |-> None]
    ELSE LET record == self.redo_stack[Len(self.redo_stack)]
         IN [stack |->
               [history |-> Append(self.history, record),
                redo_stack |-> SubSeq(self.redo_stack, 1, Len(self.redo_stack) - 1),
                push_count |-> IF record.was_push THEN self.push_count + 1
                               ELSE self.push_count],
             record |-> record]

UndoStack_move_count(self) == Len(self.history)

UndoStack_push_count(self) == self.push_count

UndoStack_can_undo(self) == Len(self.history) > 0

UndoStack_can_redo(self) == Len(self.redo_stack) > 0

\* clear that leaves the redo stack as it is
UndoStack_clear_keeps_redo(self) ==
    [history |-> <<>>, redo_stack |-> self.redo_stack, push_count |-> 0]

UndoStack_clear(self) == [history |-> <<>>, redo_stack |-> <<>>, push_count |-> 0]

invert_move(static_map, state, record) ==
    LET opposite == opposite_direction(record.direction)
        prev_player_idx == get_neighbor(static_map, state.player_index, opposite)
    IN IF ~record.was_push
       THEN GameState(prev_player_idx, state.box_indices, state.box_bitboard)
       ELSE LET box_current_idx ==
                    get_neighbor(static_map, state.player_index, record.direction)
                box_prev_idx == state.player_index
            IN with_move_push(state, prev_player_idx, box_current_idx, box_prev_idx)

\* replay_move that moves the player and leaves the box to be pushed where it is
replay_move_as_walk(static_map, state, record) ==
    with_move_walk(state, get_neighbor(static_map, state.player_index, record.direction))

replay_move(static_map, state, record) ==
    LET new_player_idx == get_neighbor(static_map, state.player_index, record.direction)
    IN IF ~record.was_push
       THEN with_move_walk(state, new_player_idx)
       ELSE LET box_from_idx == new_player_idx
                box_to_idx == get_neighbor(static_map, new_player_idx, record.direction)
            IN with_move_push(state, new_player_idx, box_from_idx, box_to_idx)

----------------------------------------------------------------------------
\* The levels games are built from

\* tests/conftest.py
\*     #####
\*     #@$.#
\*     #####
SIMPLE_LEVEL ==
    <<
       <<"#", "#", "#", "#", "#">>,
       <<"#", "@", "$", ".", "#">>,
       <<"#", "#", "#", "#", "#">>
    >>

\* tests/conftest.py
\*     ########
\*     #  $.  #
\*     #$$@.. #
\*     #  $.  #
\*     ########
MULTI_BOX_LEVEL ==
    <<
       <<"#", "#", "#", "#", "#", "#", "#", "#">>,
       <<"#", " ", " ", "$", ".", " ", " ", "#">>,
       <<"#", "$", "$", "@", ".", ".", " ", "#">>,
       <<"#", " ", " ", "$", ".", " ", " ", "#">>,
       <<"#", "#", "#", "#", "#", "#", "#", "#">>
    >>

\* tests/conftest.py
\*     ######
\*     #    #
\*     # $@.#
\*     #    #
\*     ######
SOLVABLE_LEVEL ==
    <<
       <<"#", "#", "#", "#", "#", "#">>,
       <<"#", " ", " ", " ", " ", "#">>,
       <<"#", " ", "$", "@", ".", "#">>,
       <<"#", " ", " ", " ", " ", "#">>,
       <<"#", "#", "#", "#", "#", "#">>
    >>

\* tests/conftest.py
\*     #######
\*     #@ $ .#
\*     #######
CORRIDOR_LEVEL ==
    <<
       <<"#", "#", "#", "#", "#", "#", "#">>,
       <<"#", "@", " ", "$", " ", ".", "#">>,
       <<"#", "#", "#", "#", "#", "#", "#">>
    >>

\* Lines of unequal length with floor outside the walls; two boxes, two goals
\*      ####
\*     ##  ###
\*     #.$@$.#
\*     #######
RAGGED_LEVEL ==
    <<
       <<" ", "#", "#", "#", "#">>,
       <<"#", "#", " ", " ", "#", "#", "#">>,
       <<"#", ".", "$", "@", "$", ".", "#">>,
       <<"#", "#", "#", "#", "#", "#", "#">>
    >>

\* The alternative characters; the only box starts on the only goal
\*     ######
\*     #-&X_#
\*     ######
PRESOLVED_LEVEL ==
    <<
       <<"#", "#", "#", "#", "#", "#">>,
       <<"#", "-", "&", "X", "_", "#">>,
       <<"#", "#", "#", "#", "#", "#">>
    >>

\* A goal on the edge of the grid, with no wall beyond it
\*     #.#
\*     #$#
\*     #@#
\*     ###
EDGE_GOAL_LEVEL ==
    <<
       <<"#", ".", "#">>,
       <<"#", "$", "#">>,
       <<"#", "@", "#">>,
       <<"#", "#", "#">>
    >>

\* Two boxes side by side: a push down moves the first box past the second in
\* the order of the tile indices
\*     ####
\*     #@ #
\*     #$$#
\*     #..#
\*     ####
SIDE_BY_SIDE_LEVEL ==
    <<
       <<"#", "#", "#", "#">>,
       <<"#", "@", " ", "#">>,
       <<"#", "$", "$", "#">>,
       <<"#", ".", ".", "#">>,
       <<"#", "#", "#", "#">>
    >>

Levels ==
    {SIMPLE_LEVEL,
     MULTI_BOX_LEVEL,
     SOLVABLE_LEVEL,
     CORRIDOR_LEVEL,
     RAGGED_LEVEL,
     PRESOLVED_LEVEL,
     EDGE_GOAL_LEVEL,
     SIDE_BY_SIDE_LEVEL}

----------------------------------------------------------------------------
\* engine/game.py: the operations of the Game facade, each giving the fields
\* it leaves in the game and the value it returns.

\* move that records the move before it looks at the outcome
Game_move_records_blocked(sm, st, hist, direction) ==
    LET r == apply_move(sm, st, direction)
        was_push == r.result \in {SUCCESS_PUSH, WIN}
        recorded == UndoStack_push(hist, MoveRecord(direction, was_push))
    IN IF r.new_state # None
       THEN [state |-> r.new_state, history |-> recorded, result |-> r.result]
       ELSE [state |-> st, history |-> recorded, result |-> r.result]

Game_move(sm, st, hist, direction) ==
    LET r == apply_move(sm, st, direction)
    IN IF r.new_state # None
       THEN LET was_push == r.result \in {SUCCESS_PUSH, WIN}
            IN [state |-> r.new_state,
                history |-> UndoStack_push(hist, MoveRecord(direction, was_push)),
                result |-> r.result]
       ELSE [state |-> st, history |-> hist, result |-> r.result]

Game_can_move(sm, st, direction) == can_move(sm, st, direction)

Game_get_legal_moves(sm, st) == get_legal_move_directions(sm, st)

Game_get_legal_pushes(sm, st) ==
    get_legal_pushes(sm, st.player_index, st.box_bitboard)

\* Whether get_legal_pushes() raises: compute_reachability begins with
\* 1 << player_index, a ValueError for a negative index
Game_get_legal_pushes_raises(st) == st.player_index < 0

Game_undo(sm, st, hist) ==
    LET p == UndoStack_pop(hist)
    IN IF p.record = None
       THEN [state |-> st, history |-> p.stack, ok |-> FALSE]
       ELSE [state |-> invert_move(sm, st, p.record), history |-> p.stack, ok |-> TRUE]

\* redo that returns True whether or not there was a record to replay
Game_redo_always_true(sm, st, hist) ==
    LET p == UndoStack_redo_pop(hist)
    IN IF p.record = None
       THEN [state |-> st, history |-> p.stack, ok |-> TRUE]
       ELSE [state |-> replay_move(sm, st, p.record), history |-> p.stack, ok |-> TRUE]

Game_redo(sm, st, hist) ==
    LET p == UndoStack_redo_pop(hist)
    IN IF p.record = None
       THEN [state |-> st, history |-> p.stack, ok |-> FALSE]
       ELSE [state |-> replay_move(sm, st, p.record), history |-> p.stack, ok |-> TRUE]

Game_reset(init, hist) ==
    [state |-> GameState_copy(init), history |-> UndoStack_clear(hist)]

Game_is_solved(sm, st) == is_solved(st, sm.goal_mask)

Game_boxes_on_goals(sm, st) == boxes_on_goals(st, sm.goal_mask)

Game_num_boxes(st) == Len(st.box_indices)

Game_move_count(hist) == UndoStack_move_count(hist)

Game_push_count(hist) == UndoStack_push_count(hist)

Game_can_undo(hist) == UndoStack_can_undo(hist)

Game_can_redo(hist) == UndoStack_can_redo(hist)

Game_get_move_history(hist) == hist.history

Game_get_state_hash(st) == GameState_hash(st)

Game_get_canonical_state(st) == <<st.player_index, st.box_indices>>

----------------------------------------------------------------------------
\* One game, and the one clone() makes of it

VARIABLES
    static_map,     \* Game._static_map
    initial_state,  \* Game._initial_state
    state,          \* Game._state
    history,        \* Game._history, an UndoStack
    last,           \* the last call made, on the game or its clone, and what
                    \* it returned
    pre,            \* _state and _history of the game called, as that call
                    \* found them
    clone,          \* the Game that clone() returned, None before the call
    clone_history,  \* the UndoStack that clone() made, None before the call
    zobrist,        \* a ZobristHasher, None where none is made
    table,          \* the _table of a TranspositionTable, None where none is made
    calls,          \* the store and clear calls made on the table, oldest first
    requests,       \* the server's requests in progress, one per thread of the
                    \* pool; None where no server runs
    old_games,      \* the Games that a request in progress still holds after
                    \* load_level has replaced _current_game
    pool,           \* what the server's thread pool has done since a level
                    \* was loaded: the requests it has begun on the game;
                    \* None where no server runs
    infos           \* what load_collection_with_info reads from the
                    \* collection file of LEVELS_DIR, which no request
                    \* changes: the _static_map and the _initial_state of the
                    \* Game of each level; None where no server runs

vars == <<static_map, initial_state, state, history, last, pre, clone, clone_history,
          zobrist, table, calls, requests, old_games, pool, infos>>

\* A Game object is the record of its fields.  _state holds the GameState,
\* which no code changes in place; the other fields hold the name of the
\* object they refer to, so that two games can refer to one object.  The
\* objects are named after the variable that holds them: those made by
\* Game.__init__ and the UndoStack made by clone().
game ==
    [_parsed |-> "parsed",
     _static_map |-> "static_map",
     _initial_state |-> "initial_state",
     _state |-> state,
     _history |-> "history"]

\* The object a field refers to
Object(name) ==
    CASE name = "static_map" -> static_map
      [] name = "initial_state" -> initial_state
      [] name = "history" -> history
      [] name = "clone_history" -> clone_history
      [] name = "state" -> state

\* clone that hands its own UndoStack to the new game
Game_clone_shares_history(self) ==
    [_parsed |-> self._parsed,
     _static_map |-> self._static_map,
     _initial_state |-> self._initial_state,
     _state |-> GameState_copy(self._state),
     _history |-> self._history]

\* clone that starts the new game from the initial state
Game_clone_from_initial_state(self) ==
    [_parsed |-> self._parsed,
     _static_map |-> self._static_map,
     _initial_state |-> self._initial_state,
     _state |-> GameState_copy(Object(self._initial_state)),
     _history |-> "clone_history"]

\* clone that takes the original's current state for its initial state
Game_clone_resets_to_current(self) ==
    [_parsed |-> self._parsed,
     _static_map |-> self._static_map,
     _initial_state |-> "state",
     _state |-> GameState_copy(self._state),
     _history |-> "clone_history"]

\* Game.clone: the fields of the new game; its _history is the UndoStack()
\* the call makes
Game_clone(self) ==
    [_parsed |-> self._parsed,
     _static_map |-> self._static_map,
     _initial_state |-> self._initial_state,
     _state |-> GameState_copy(self._state),
     _history |-> "clone_history"]

\* Game(level_string)
Game_init(lines) ==
    LET parsed == parse_level(lines)
    IN /\ static_map = StaticMap_from_parsed_level(parsed)
       /\ initial_state = GameState_from_parsed_level(parsed, static_map)
       /\ state = GameState_copy(initial_state)
       /\ history = UndoStack

Init ==
    /\ \E lines \in Levels : Game_init(lines)
    /\ last = [op |-> "init"]
    /\ pre = [state |-> state, history |-> history]
    /\ clone = None
    /\ clone_history = None
    /\ requests = None
    /\ old_games = None
    /\ pool = None
    /\ infos = None
    /\ zobrist = None
    /\ table = None
    /\ calls = None

Snapshot == pre' = [state |-> state, history |-> history]

\* game.move(direction), while the executed history is within the bounds
Move(direction) ==
    /\ Len(history.history) < MaxHistory
    /\ clone # None => Len(history.history) < MaxCloneHistory
    /\ LET g == Game_move(static_map, state, history, direction)
       IN /\ state' = g.state
          /\ history' = g.history
          /\ last' = [op |-> "move", direction |-> direction, result |-> g.result]
    /\ Snapshot
    /\ UNCHANGED <<infos, pool, requests, old_games, zobrist, table, calls, static_map, initial_state, clone, clone_history>>

CanMove(direction) ==
    /\ last' = [op |-> "can_move", direction |-> direction,
                ok |-> Game_can_move(static_map, state, direction)]
    /\ Snapshot
    /\ UNCHANGED <<infos, pool, requests, old_games, zobrist, table, calls, static_map, initial_state, state, history,
                   clone, clone_history>>

GetLegalMoves ==
    /\ last' = [op |-> "get_legal_moves",
                result |-> Game_get_legal_moves(static_map, state)]
    /\ Snapshot
    /\ UNCHANGED <<infos, pool, requests, old_games, zobrist, table, calls, static_map, initial_state, state, history,
                   clone, clone_history>>

GetLegalPushes ==
    /\ last' = IF Game_get_legal_pushes_raises(state)
               THEN [op |-> "get_legal_pushes", raised |-> "ValueError"]
               ELSE [op |-> "get_legal_pushes",
                     result |-> Game_get_legal_pushes(static_map, state)]
    /\ Snapshot
    /\ UNCHANGED <<infos, pool, requests, old_games, zobrist, table, calls, static_map, initial_state, state, history,
                   clone, clone_history>>

Undo ==
    /\ LET g == Game_undo(static_map, state, history)
       IN /\ state' = g.state
          /\ history' = g.history
          /\ last' = [op |-> "undo", ok |-> g.ok]
    /\ Snapshot
    /\ UNCHANGED <<infos, pool, requests, old_games, zobrist, table, calls, static_map, initial_state, clone, clone_history>>

Redo ==
    /\ LET g == Game_redo(static_map, state, history)
       IN /\ state' = g.state
          /\ history' = g.history
          /\ last' = [op |-> "redo", ok |-> g.ok]
    /\ Snapshot
    /\ UNCHANGED <<infos, pool, requests, old_games, zobrist, table, calls, static_map, initial_state, clone, clone_history>>

Reset ==
    /\ LET g == Game_reset(initial_state, history)
       IN /\ state' = g.state
          /\ history' = g.history
    /\ last' = [op |-> "reset"]
    /\ Snapshot
    /\ UNCHANGED <<infos, pool, requests, old_games, zobrist, table, calls, static_map, initial_state, clone, clone_history>>

Next ==
    \/ \E direction \in Directions : Move(direction)
    \/ \E direction \in Directions : CanMove(direction)
    \/ GetLegalMoves
    \/ GetLegalPushes
    \/ Undo
    \/ Redo
    \/ Reset

Spec == Init /\ [][Next]_vars

----------------------------------------------------------------------------------------------------------------------------------------
\* Levels whose player stands on floor connected to the grid boundary

\* the player in the corner of the grid, outside the walls
OPEN_CORNER_LEVEL ==
    <<
       <<"@", "#", "#", "#">>,
       <<"#", "$", ".", "#">>,
       <<"#", "#", "#", "#">>
    >>

\* the player outside a closed room
OPEN_ROOM_LEVEL ==
    <<
       <<"@", "#", "#", "#", "#", "#">>,
       <<"#", " ", " ", "$", ".", "#">>,
       <<"#", " ", " ", " ", " ", "#">>,
       <<"#", "#", "#", "#", "#", "#">>
    >>

\* the player in a doorway on the left edge, a box on a goal beside it
OPEN_DOOR_LEVEL ==
    <<
       <<"#", "#", "#", "#", "#", "#", "#">>,
       <<" ", "@", "*", "$", " ", ".", "#">>,
       <<"#", "#", "#", "#", "#", "#", "#">>
    >>

BoundaryLevels ==
    {OPEN_CORNER_LEVEL,
     OPEN_ROOM_LEVEL,
     OPEN_DOOR_LEVEL,
     SIMPLE_LEVEL,
     EDGE_GOAL_LEVEL}

\* Game(level_string) for a level of BoundaryLevels
BoundaryInit ==
    /\ \E lines \in BoundaryLevels : Game_init(lines)
    /\ last = [op |-> "init"]
    /\ pre = [state |-> state, history |-> history]
    /\ clone = None
    /\ clone_history = None
    /\ requests = None
    /\ old_games = None
    /\ pool = None
    /\ infos = None
    /\ zobrist = None
    /\ table = None
    /\ calls = None

BoundaryNext ==
    \/ \E direction \in Directions : Move(direction)
    \/ \E direction \in Directions : CanMove(direction)
    \/ GetLegalMoves
    \/ GetLegalPushes
    \/ Undo
    \/ Redo
    \/ Reset

BoundarySpec == BoundaryInit /\ [][BoundaryNext]_vars

----------------
\* The game and its clone, each played on its own

\* g.clone()
Clone ==
    /\ clone = None
    /\ Len(history.history) + Len(history.redo_stack) <= MaxCloneRecords
    /\ clone' = Game_clone(game)
    /\ clone_history' = UndoStack
    /\ last' = [op |-> "clone"]
    /\ Snapshot
    /\ UNCHANGED <<infos, pool, requests, old_games, zobrist, table, calls, static_map, initial_state, state, history>>

\* A call on the clone leaves the clone with _state st and the UndoStack its
\* _history refers to with the value hist
CloneBecomes(st, hist) ==
    /\ clone' = [clone EXCEPT !._state = st]
    /\ IF clone._history = "history"
       THEN history' = hist /\ clone_history' = clone_history
       ELSE clone_history' = hist /\ history' = history
    /\ pre' = [state |-> clone._state, history |-> Object(clone._history)]
    /\ UNCHANGED <<infos, pool, requests, old_games, zobrist, table, calls, static_map, initial_state, state>>

CloneMove(direction) ==
    /\ clone # None
    /\ Len(Object(clone._history).history) < MaxCloneHistory
    /\ LET g == Game_move(Object(clone._static_map), clone._state,
                          Object(clone._history), direction)
       IN /\ CloneBecomes(g.state, g.history)
          /\ last' = [op |-> "clone_move", direction |-> direction,
                      result |-> g.result]

CloneUndo ==
    /\ clone # None
    /\ LET g == Game_undo(Object(clone._static_map), clone._state,
                          Object(clone._history))
       IN /\ CloneBecomes(g.state, g.history)
          /\ last' = [op |-> "clone_undo", ok |-> g.ok]

CloneRedo ==
    /\ clone # None
    /\ LET g == Game_redo(Object(clone._static_map), clone._state,
                          Object(clone._history))
       IN /\ CloneBecomes(g.state, g.history)
          /\ last' = [op |-> "clone_redo", ok |-> g.ok]

CloneReset ==
    /\ clone # None
    /\ LET g == Game_reset(Object(clone._initial_state), Object(clone._history))
       IN CloneBecomes(g.state, g.history)
    /\ last' = [op |-> "clone_reset"]

CloneNext ==
    \/ \E direction \in Directions : Move(direction)
    \/ Undo
    \/ Redo
    \/ Reset
    \/ Clone
    \/ \E direction \in Directions : CloneMove(direction)
    \/ CloneUndo
    \/ CloneRedo
    \/ CloneReset

CloneSpec == Init /\ [][CloneNext]_vars

----------------------------------------------------------------------------
\* The reachability functions on every placement of a level's player and boxes

\* The subsets of S with k elements
RECURSIVE KSubsets(_, _)
KSubsets(S, k) ==
    IF k = 0 THEN {{}}
    ELSE UNION {{T \cup {x} : T \in KSubsets({y \in S : y > x}, k - 1)} : x \in S}

\* The elements of a finite set of integers as a list, in descending order
RECURSIVE ListOf(_)
ListOf(S) == IF S = {} THEN <<>> ELSE <<Max(S)>> \o ListOf(S \ {Max(S)})

\* Game(level_string), then a state built by GameState.from_positions with the
\* player on any tile and the level's number of boxes on any other tiles with
\* an index below MaxBoxTile
ReachInit ==
    /\ \E lines \in Levels :
          LET parsed == parse_level(lines)
          IN /\ static_map = StaticMap_from_parsed_level(parsed)
             /\ initial_state = GameState_from_parsed_level(parsed, static_map)
    /\ history = UndoStack
    /\ clone = None
    /\ clone_history = None
    /\ requests = None
    /\ old_games = None
    /\ pool = None
    /\ infos = None
    /\ zobrist = None
    /\ table = None
    /\ calls = None
    /\ \E player \in 0..(static_map.num_floor_tiles - 1) :
          \E boxes \in KSubsets({tile \in 0..(static_map.num_floor_tiles - 1) :
                                    tile # player /\ tile < MaxBoxTile},
                                Len(initial_state.box_indices)) :
              state = from_positions(player, ListOf(boxes))
    /\ last = [op |-> "init"]
    /\ pre = [state |-> state, history |-> history]

\* compute_reachability(static_map, state.player_index, state.box_bitboard)
ComputeReachability ==
    /\ last' = [op |-> "compute_reachability",
                result |-> compute_reachability(static_map, state.player_index,
                                                state.box_bitboard)]
    /\ Snapshot
    /\ UNCHANGED <<infos, pool, requests, old_games, zobrist, table, calls, static_map, initial_state, state, history,
                   clone, clone_history>>

\* compute_reachability_fast(static_map, state.player_index, state.box_bitboard)
ComputeReachabilityFast ==
    /\ last' = [op |-> "compute_reachability_fast",
                result |-> compute_reachability_fast(static_map, state.player_index,
                                                     state.box_bitboard)]
    /\ Snapshot
    /\ UNCHANGED <<infos, pool, requests, old_games, zobrist, table, calls, static_map, initial_state, state, history,
                   clone, clone_history>>

ReachNext ==
    \/ ComputeReachability
    \/ ComputeReachabilityFast
    \/ GetLegalPushes

ReachSpec == ReachInit /\ [][ReachNext]_vars

----------------------------------------------------------------------------
\* The functions of ZobristHasher and GameState.from_positions on every
\* hasher for up to MaxZobristTiles tiles and every placement of a player
\* and up to MaxZobristBoxes boxes on those tiles

\* The sequences without repetition of all the elements of a finite set
RECURSIVE Orderings(_)
Orderings(S) ==
    IF S = {} THEN {<<>>}
    ELSE UNION {{<<x>> \o rest : rest \in Orderings(S \ {x})} : x \in S}

\* ZobristHasher(num_floor_tiles, seed), and a state built by
\* GameState.from_positions
ZobristInit ==
    /\ \E num_floor_tiles \in 1..MaxZobristTiles : \E seed \in Seeds :
          zobrist = ZobristHasher(num_floor_tiles, seed)
    /\ \E player \in DOMAIN zobrist._player_keys :
          \E boxes \in SUBSET (DOMAIN zobrist._box_keys) :
              /\ Cardinality(boxes) <= MaxZobristBoxes
              /\ state = from_positions(player, ListOf(boxes))
    /\ last = [op |-> "init"]
    /\ pre = None
    /\ static_map = None
    /\ initial_state = None
    /\ history = None
    /\ clone = None
    /\ clone_history = None
    /\ requests = None
    /\ old_games = None
    /\ pool = None
    /\ infos = None
    /\ table = None
    /\ calls = None

ZobristUnchanged ==
    UNCHANGED <<infos, pool, requests, old_games, zobrist, table, calls, static_map, initial_state, state, history,
                pre, clone, clone_history>>

\* GameState.from_positions(state.player_index, box_indices), the boxes of
\* the state in any order
FromPositions(box_indices) ==
    /\ last' = [op |-> "from_positions", box_indices |-> box_indices,
                result |-> from_positions(state.player_index, box_indices)]
    /\ ZobristUnchanged

\* zobrist.hash_state(state.player_index, box_indices), the boxes of the
\* state in any order
HashState(box_indices) ==
    /\ last' = [op |-> "hash_state", box_indices |-> box_indices,
                result |-> hash_state(zobrist, state.player_index, box_indices)]
    /\ ZobristUnchanged

\* zobrist.update_walk(zobrist.hash_state(p, B), p, new_player) for the
\* state's p and B
UpdateWalk(new_player) ==
    /\ LET current_hash == hash_state(zobrist, state.player_index, state.box_indices)
       IN last' = [op |-> "update_walk", new_player |-> new_player,
                   result |-> update_walk(zobrist, current_hash,
                                          state.player_index, new_player)]
    /\ ZobristUnchanged

\* zobrist.update_push(zobrist.hash_state(p, B), p, new_player, box_from,
\* box_to) for the state's p and B, box_from in B and box_to not in B
UpdatePush(new_player, box_from, box_to) ==
    /\ box_from \in Range(state.box_indices)
    /\ box_to \notin Range(state.box_indices)
    /\ LET current_hash == hash_state(zobrist, state.player_index, state.box_indices)
       IN last' = [op |-> "update_push", new_player |-> new_player,
                   box_from |-> box_from, box_to |-> box_to,
                   result |-> update_push(zobrist, current_hash, state.player_index,
                                          new_player, box_from, box_to)]
    /\ ZobristUnchanged

ZobristNext ==
    \/ \E box_indices \in Orderings(Range(state.box_indices)) : FromPositions(box_indices)
    \/ \E box_indices \in Orderings(Range(state.box_indices)) : HashState(box_indices)
    \/ \E new_player \in DOMAIN zobrist._player_keys : UpdateWalk(new_player)
    \/ \E new_player \in DOMAIN zobrist._player_keys :
          \E box_from, box_to \in DOMAIN zobrist._box_keys :
              UpdatePush(new_player, box_from, box_to)

ZobristSpec == ZobristInit /\ [][ZobristNext]_vars

----------------------------------------------------------------------------
\* src/game/server.py: the endpoints of the game server that load a game and
\* act on it.  The handlers are plain functions, which the framework runs on
\* the threads of a pool; the module takes no lock, so the handlers of two
\* requests interleave.  A step of a request is one access to what the
\* requests share: a read or write of _current_game, or a call on the Game;
\* the statements that touch only the request's own variables go with the
\* access before them.  Inside a call on the Game a step is one statement
\* of the Game or of its UndoStack that reads or writes the game; a
\* statement that reads the state for a function it calls and assigns what
\* the function returns is two steps, the read and the assignment.  The
\* code holds no lock over these steps, and the model lets a thread be taken
\* off between any two of them.

\* The numbers the requests give as a direction: RIGHT, along the corridors
\* of the collection, and one that is no direction
RequestDirections == {3, 4}

\* The threads of the pool
Threads == 1..MaxThreads

\* The levels of the collection file of LEVELS_DIR, in the order of the file
Collection == <<SIMPLE_LEVEL, CORRIDOR_LEVEL>>

\* The file names a load request may give: the collection, and a file that is
\* not there
Filenames == {"model.txt", "missing.txt"}

\* The lists of at most n request directions
RECURSIVE DirectionLists(_)
DirectionLists(n) ==
    IF n = 0 THEN {<<>>}
    ELSE LET shorter == DirectionLists(n - 1)
         IN shorter \cup {Append(l, d) : l \in shorter, d \in RequestDirections}

\* The handlers that act on the loaded game, and the directions a request to
\* each of them carries
Handlers == {"move", "move_path", "undo", "redo", "reset"}

RequestsTo(handler) ==
    CASE handler = "move" -> {<<d>> : d \in RequestDirections}
      [] handler = "move_path" -> DirectionLists(MaxPath)
      [] OTHER -> {<<>>}

\* The Game object _current_game refers to, None before the first load
_current_game ==
    IF static_map = None THEN None
    ELSE [static_map |-> static_map, initial_state |-> initial_state,
          state |-> state, history |-> history]

\* The Game a request holds in its variable `game`: 0 stands for the object
\* _current_game refers to, k > 0 for the k-th of the old games
GameOf(request) ==
    IF request.game = 0 THEN _current_game ELSE old_games[request.game]

\* A call of game.move(direction), game.undo(), game.redo() or game.reset()
\* that a thread is about to begin.  `at` names the statement of the Game or
\* of its UndoStack the thread executes next, record and new_state are the
\* local variables of the call.
GameCall(op, direction) ==
    [op |-> op,
     direction |-> direction,
     at |-> CASE op = "move" -> "apply_move"
              [] op = "undo" -> "pop_check"
              [] op = "redo" -> "redo_pop_check"
              [] op = "reset" -> "assign",
     record |-> None,
     new_state |-> None]

\* What a statement of a call leaves: the state and the stacks of the game,
\* the call where it goes on, and where it ends the value it returns or the
\* exception it raises
Continues(g, st, hist, call) ==
    [state |-> st, history |-> hist, call |-> call, blocked |-> FALSE, raises |-> "",
     bounded |-> TRUE]

Returns(g, st, hist, blocked) ==
    [state |-> st, history |-> hist, call |-> None, blocked |-> blocked, raises |-> "",
     bounded |-> TRUE]

Raises(g, exception) ==
    [state |-> g.state, history |-> g.history, call |-> None, blocked |-> FALSE,
     raises |-> exception, bounded |-> TRUE]

\* 1 << index raises ValueError for a negative index: move_box, on which
\* with_move relies for a push, raises when the pushed box comes from or
\* goes to the index -1 of a wall
invert_move_raises(sm, st, record) ==
    /\ record.was_push
    /\ \/ get_neighbor(sm, st.player_index, record.direction) < 0
       \/ st.player_index < 0

replay_move_raises(sm, st, record) ==
    /\ record.was_push
    /\ LET new_player_idx == get_neighbor(sm, st.player_index, record.direction)
       IN \/ new_player_idx < 0
          \/ get_neighbor(sm, new_player_idx, record.direction) < 0

\* Game.move, statement by statement, with UndoStack.push
Game_move_statement(g, call) ==
    LET h == g.history
    IN CASE call.at = "apply_move" ->
                LET r == apply_move(g.static_map, g.state, call.direction)
                IN IF r.new_state = None
                   THEN Returns(g, g.state, h, TRUE)
                   ELSE Continues(g, g.state, h,
                            [call EXCEPT
                                !.at = "append",
                                !.new_state = r.new_state,
                                !.record = MoveRecord(call.direction,
                                               r.result \in {SUCCESS_PUSH, WIN})])
         [] call.at = "append" ->
                Continues(g, g.state,
                          [h EXCEPT !.history = Append(h.history, call.record)],
                          [call EXCEPT !.at = IF call.record.was_push
                                              THEN "push_count" ELSE "redo_clear"])
         [] call.at = "push_count" ->
                Continues(g, g.state, [h EXCEPT !.push_count = h.push_count + 1],
                          [call EXCEPT !.at = "redo_clear"])
         [] call.at = "redo_clear" ->
                Continues(g, g.state, [h EXCEPT !.redo_stack = <<>>],
                          [call EXCEPT !.at = "assign"])
         [] call.at = "assign" ->
                Returns(g, call.new_state, h, FALSE)

\* Game.undo, statement by statement, with UndoStack.pop
Game_undo_statement(g, call) ==
    LET h == g.history
    IN CASE call.at = "pop_check" ->
                IF h.history = <<>>
                THEN Returns(g, g.state, h, FALSE)
                ELSE Continues(g, g.state, h, [call EXCEPT !.at = "pop"])
         [] call.at = "pop" ->
                IF h.history = <<>>
                THEN Raises(g, "IndexError")
                ELSE LET record == h.history[Len(h.history)]
                     IN Continues(g, g.state,
                            [h EXCEPT !.history = SubSeq(h.history, 1, Len(h.history) - 1)],
                            [call EXCEPT !.record = record,
                                         !.at = IF record.was_push
                                                THEN "push_count" ELSE "redo_append"])
         [] call.at = "push_count" ->
                Continues(g, g.state, [h EXCEPT !.push_count = h.push_count - 1],
                          [call EXCEPT !.at = "redo_append"])
         [] call.at = "redo_append" ->
                Continues(g, g.state,
                          [h EXCEPT !.redo_stack = Append(h.redo_stack, call.record)],
                          [call EXCEPT !.at = "invert_move"])
         [] call.at = "invert_move" ->
                IF invert_move_raises(g.static_map, g.state, call.record)
                THEN Raises(g, "ValueError")
                ELSE Continues(g, g.state, h,
                         [call EXCEPT
                             !.at = "assign",
                             !.new_state = invert_move(g.static_map, g.state,
                                                       call.record)])
         [] call.at = "assign" ->
                Returns(g, call.new_state, h, FALSE)

\* Game.redo, statement by statement, with UndoStack.redo_pop
Game_redo_statement(g, call) ==
    LET h == g.history
    IN CASE call.at = "redo_pop_check" ->
                IF h.redo_stack = <<>>
                THEN Returns(g, g.state, h, FALSE)
                ELSE Continues(g, g.state, h, [call EXCEPT !.at = "redo_pop"])
         [] call.at = "redo_pop" ->
                IF h.redo_stack = <<>>
                THEN Raises(g, "IndexError")
                ELSE LET record == h.redo_stack[Len(h.redo_stack)]
                     IN Continues(g, g.state,
                            [h EXCEPT !.redo_stack =
                                SubSeq(h.redo_stack, 1, Len(h.redo_stack) - 1)],
                            [call EXCEPT !.record = record, !.at = "append"])
         [] call.at = "append" ->
                Continues(g, g.state,
                          [h EXCEPT !.history = Append(h.history, call.record)],
                          [call EXCEPT !.at = IF call.record.was_push
                                              THEN "push_count" ELSE "replay_move"])
         [] call.at = "push_count" ->
                Continues(g, g.state, [h EXCEPT !.push_count = h.push_count + 1],
                          [call EXCEPT !.at = "replay_move"])
         [] call.at = "replay_move" ->
                IF replay_move_raises(g.static_map, g.state, call.record)
                THEN Raises(g, "ValueError")
                ELSE Continues(g, g.state, h,
                         [call EXCEPT
                             !.at = "assign",
                             !.new_state = replay_move(g.static_map, g.state,
                                                       call.record)])
         [] call.at = "assign" ->
                Returns(g, call.new_state, h, FALSE)

\* Game.reset, statement by statement, with UndoStack.clear
Game_reset_statement(g, call) ==
    LET h == g.history
    IN CASE call.at = "assign" ->
                Continues(g, GameState_copy(g.initial_state), h,
                          [call EXCEPT !.at = "history_clear"])
         [] call.at = "history_clear" ->
                Continues(g, g.state, [h EXCEPT !.history = <<>>],
                          [call EXCEPT !.at = "redo_clear"])
         [] call.at = "redo_clear" ->
                Continues(g, g.state, [h EXCEPT !.redo_stack = <<>>],
                          [call EXCEPT !.at = "push_count"])
         [] call.at = "push_count" ->
                Returns(g, g.state, [h EXCEPT !.push_count = 0], FALSE)

\* The statement the call is at, executed on the game g
GameStatement(g, call) ==
    CASE call.op = "move" -> Game_move_statement(g, call)
      [] call.op = "undo" -> Game_undo_statement(g, call)
      [] call.op = "redo" -> Game_redo_statement(g, call)
      [] call.op = "reset" -> Game_reset_statement(g, call)

\* Whether the statement the call is at can run within the model's bound:
\* a statement that appends to the executed history runs while this is
\* shorter than MaxServerHistory
Bounded(g, call) ==
    call.at = "append" => Len(g.history.history) < MaxServerHistory

\* The statements of the call run on the game g one after the other, to the
\* end of the call; `bounded` tells whether the run stayed within
\* MaxServerHistory
RECURSIVE RunCall(_, _)
RunCall(g, call) ==
    IF ~Bounded(g, call)
    THEN [Raises(g, "") EXCEPT !.bounded = FALSE]
    ELSE LET c == GameStatement(g, call)
         IN IF c.call = None THEN c
            ELSE RunCall([g EXCEPT !.state = c.state, !.history = c.history], c.call)

\* A request that has passed _require_game().  directions are the directions
\* it has still to move in, raised the message of the ValueError move_path
\* has raised ("" while it has raised none), undos the calls of game.undo()
\* its except block has still to make, call the call on the game it is in.
\* before is what the request found of the game, kept as long as the request
\* runs alone: None once another request has run a statement on a game or a
\* level has been loaded.
Request(handler, directions, g) ==
    [handler |-> handler,
     game |-> 0,
     directions |-> directions,
     executed |-> 0,
     raised |-> "",
     undos |-> 0,
     call |-> None,
     before |-> [player_index |-> g.state.player_index,
                 box_indices |-> g.state.box_indices,
                 move_count |-> Game_move_count(g.history),
                 push_count |-> Game_push_count(g.history)]]

\* A handler that has left its last call on the game: the status of its
\* response
Responds(status_code) == [request |-> None, status_code |-> status_code]

\* A handler that goes on to a call on the game
Calls(request, op, direction) ==
    [request |-> [request EXCEPT !.call = GameCall(op, direction)],
     status_code |-> 0]

\* move_path between two calls on the game: the head of its loop, where the
\* direction it comes to is checked before the game is called, and its
\* except block
move_path_next(request) ==
    IF request.raised = ""
    THEN IF request.directions = <<>> THEN Responds(200)
         ELSE IF Head(request.directions) \notin {0, 1, 2, 3}
         THEN IF request.executed = 0 THEN Responds(400)
              ELSE Calls([request EXCEPT !.raised = "Invalid direction",
                                         !.undos = request.executed],
                         "undo", None)
         ELSE Calls(request, "move", Direction[Head(request.directions) + 1])
    ELSE IF request.undos = 0 THEN Responds(400)
         ELSE Calls(request, "undo", None)

\* The handler up to its first call on the game
HandlerBegins(request) ==
    CASE request.handler = "move" ->
             IF Head(request.directions) \notin {0, 1, 2, 3} THEN Responds(400)
             ELSE Calls(request, "move", Direction[Head(request.directions) + 1])
      [] request.handler = "move_path" -> move_path_next(request)
      [] request.handler = "undo" -> Calls(request, "undo", None)
      [] request.handler = "redo" -> Calls(request, "redo", None)
      [] request.handler = "reset" -> Calls(request, "reset", None)

\* The handler after a call on the game has returned, `blocked` telling
\* whether game.move returned BLOCKED_WALL or BLOCKED_BOX, or has raised
HandlerGoesOn(request, blocked, raises) ==
    IF raises # "" THEN Responds(500)
    ELSE IF request.handler # "move_path" THEN Responds(200)
    ELSE IF request.raised # ""
    THEN move_path_next([request EXCEPT !.undos = request.undos - 1])
    ELSE LET executed == request.executed + 1
         IN IF blocked
            THEN move_path_next([request EXCEPT !.executed = executed,
                                                !.raised = "Blocked at step",
                                                !.undos = executed])
            ELSE move_path_next([request EXCEPT !.executed = executed,
                                                !.directions = Tail(request.directions)])

\* The handler of the request run from the call it is in to its response, on
\* a game g that no other thread refers to: the status of the response, and
\* whether the run stayed within MaxServerHistory
RECURSIVE RunHandler(_, _)
RunHandler(g, request) ==
    LET c == RunCall(g, request.call)
        on == HandlerGoesOn(request, c.blocked, c.raises)
    IN IF ~c.bounded THEN [status_code |-> 0, bounded |-> FALSE]
       ELSE IF on.request = None
       THEN [status_code |-> on.status_code, bounded |-> TRUE]
       ELSE RunHandler([g EXCEPT !.state = c.state, !.history = c.history],
                       on.request)

\* The response of a handler, as far as the model keeps it: its status
Response(status_code) == [op |-> "response", status_code |-> status_code]

\* What `last` holds after a step of the server that sends no response
NoResponse == [op |-> "running", status_code |-> 0]

\* The requests in progress when one of the threads in `acting` has run a
\* statement on a game or a level has been loaded: the others no longer run
\* alone
Interfered(rs, acting) ==
    [t \in Threads |->
        IF rs[t] = None \/ t \in acting THEN rs[t]
        ELSE [rs[t] EXCEPT !.before = None]]

\* The server module when it has been imported: no level loaded, no request
\* in progress
ServerInit ==
    /\ static_map = None
    /\ initial_state = None
    /\ state = None
    /\ history = None
    /\ requests = [t \in Threads |-> None]
    /\ old_games = [k \in 1..MaxOldGames |-> None]
    /\ pool = [requests |-> 0]
    /\ infos = [i \in 1..Len(Collection) |->
                   LET parsed == parse_level(Collection[i])
                       new_map == StaticMap_from_parsed_level(parsed)
                   IN [static_map |-> new_map,
                       initial_state |-> GameState_from_parsed_level(parsed, new_map)]]
    /\ last = [op |-> "init"]
    /\ pre = None
    /\ clone = None
    /\ clone_history = None
    /\ zobrist = None
    /\ table = None
    /\ calls = None

\* POST /api/load: load_level, which answers 404 for a file that is not there
\* and 400 for an index out of range, and else makes the game of the level
\* the current one.  A request in progress keeps the Game it has read, as
\* one of the old games, of which the model follows MaxOldGames at a time.
LoadLevel(filename, index) ==
    /\ \E t \in Threads : requests[t] = None
    /\ IF filename # "model.txt"
       THEN /\ last' = Response(404)
            /\ UNCHANGED <<static_map, initial_state, state, history, requests, old_games,
                           pool>>
       ELSE IF index < 0 \/ index >= Len(infos)
       THEN /\ last' = Response(400)
            /\ UNCHANGED <<static_map, initial_state, state, history, requests, old_games,
                           pool>>
       ELSE LET info == infos[index + 1]
                new_map == info.static_map
                new_state == info.initial_state
                holders == {t \in Threads : requests[t] # None /\ requests[t].game = 0}
                free == {k \in 1..MaxOldGames : old_games[k] = None}
                slot == CHOOSE k \in free : \A j \in free : k <= j
            IN /\ holders # {} => free # {}
               /\ static_map' = new_map
               /\ initial_state' = new_state
               /\ state' = GameState_copy(new_state)
               /\ history' = UndoStack
               /\ IF holders = {}
                  THEN UNCHANGED old_games
                  ELSE old_games' = [old_games EXCEPT ![slot] = _current_game]
               /\ requests' = Interfered([t \in Threads |->
                                             IF t \in holders
                                             THEN [requests[t] EXCEPT !.game = slot]
                                             ELSE requests[t]], {})
               /\ last' = Response(200)
               /\ pool' = IF \A t \in Threads : requests[t] = None
                          THEN [requests |-> 0]
                          ELSE pool
    /\ UNCHANGED <<infos, pre, zobrist, table, calls, clone, clone_history>>

\* A request to one of the handlers that act on the loaded game arrives and
\* a thread of the pool runs the handler up to its first call on the game:
\* _require_game(), which answers 400 when no level is loaded, and the check
\* of the direction.  The model follows MaxRequests requests that call the
\* game a level was loaded with.
BeginRequest(handler, directions) ==
    /\ \E t \in Threads :
          /\ requests[t] = None
          /\ \A u \in Threads : u < t => requests[u] # None
          /\ IF _current_game = None
             THEN /\ last' = Response(400)
                  /\ UNCHANGED <<requests, pool>>
             ELSE LET begun == HandlerBegins(Request(handler, directions, _current_game))
                  IN IF begun.request = None
                     THEN /\ last' = Response(begun.status_code)
                          /\ UNCHANGED <<requests, pool>>
                     ELSE /\ pool.requests < MaxRequests
                          /\ pool' = [pool EXCEPT !.requests = pool.requests + 1]
                          /\ requests' = [requests EXCEPT ![t] = begun.request]
                          /\ last' = NoResponse
    /\ UNCHANGED <<infos, static_map, initial_state, state, history, old_games,
                   pre, zobrist, table, calls, clone, clone_history>>

\* Whether the thread t holds a game that load_level has replaced and that
\* no other thread holds
HoldsAlone(t) ==
    /\ requests[t].game # 0
    /\ \A u \in Threads \ {t} :
          IF requests[u] = None THEN TRUE ELSE requests[u].game # requests[t].game

\* The thread t runs the statement its call is at.  When the statement ends
\* the call, the thread goes on through the statements of the handler that
\* follow, up to the next call on the game or to the response.  Any thread
\* with a request in progress may be the one that runs next.
RequestStep(t) ==
    /\ requests[t] # None
    /\ ~HoldsAlone(t)
    /\ LET request == requests[t]
           g == GameOf(request)
           c == GameStatement(g, request.call)
           after == [g EXCEPT !.state = c.state, !.history = c.history]
           on == IF c.call # None
                 THEN [request |-> [request EXCEPT !.call = c.call], status_code |-> 0]
                 ELSE HandlerGoesOn(request, c.blocked, c.raises)
       IN /\ Bounded(g, request.call)
          /\ IF request.game = 0
             THEN /\ state' = c.state
                  /\ history' = c.history
                  /\ UNCHANGED old_games
             ELSE /\ old_games' = [old_games EXCEPT ![request.game] = after]
                  /\ UNCHANGED <<state, history>>
          /\ requests' = Interfered([requests EXCEPT ![t] = on.request], {t})
          /\ IF on.request = None
             THEN last' = Response(on.status_code)
             ELSE last' = NoResponse
    /\ UNCHANGED <<infos, pool, pre, static_map, initial_state, zobrist, table, calls, clone,
                   clone_history>>

\* The thread t, which holds a game that load_level has replaced and that no
\* other thread holds, runs its handler to the response: nothing the
\* handler reads or writes from here on is shared
RequestEnds(t) ==
    /\ requests[t] # None
    /\ HoldsAlone(t)
    /\ LET ended == RunHandler(GameOf(requests[t]), requests[t])
       IN /\ ended.bounded
          /\ last' = Response(ended.status_code)
    /\ old_games' = [old_games EXCEPT ![requests[t].game] = None]
    /\ requests' = [requests EXCEPT ![t] = None]
    /\ UNCHANGED <<infos, pool, pre, state, history, static_map, initial_state, zobrist,
                   table, calls, clone, clone_history>>

\* POST /api/load, /api/move, /api/move-path, /api/undo, /api/redo and
\* /api/reset, each on a thread of the pool
ServerNext ==
    \/ \E filename \in Filenames : \E index \in (-1)..Len(Collection) :
          LoadLevel(filename, index)
    \/ \E handler \in Handlers : \E directions \in RequestsTo(handler) :
          BeginRequest(handler, directions)
    \/ \E t \in Threads : RequestStep(t)
    \/ \E t \in Threads : RequestEnds(t)

ServerSpec == ServerInit /\ [][ServerNext]_vars

----------------------------------------------------------------------------
\* A TranspositionTable under any MaxTableCalls store and clear calls, with
\* lookups, membership tests and len() in between

\* The hashes and the data the calls are made with: the hashes of
\* tests/test_zobrist.py; as data a solver's record of a search depth, or None
TableHashes == {1, 2, 12345}
TableData == {[depth |-> 10], [depth |-> 20], None}

TableInit ==
    /\ table = TranspositionTable
    /\ calls = <<>>
    /\ last = [op |-> "init"]
    /\ pre = None
    /\ zobrist = None
    /\ static_map = None
    /\ initial_state = None
    /\ state = None
    /\ history = None
    /\ clone = None
    /\ clone_history = None
    /\ requests = None
    /\ old_games = None
    /\ pool = None
    /\ infos = None

TableUnchanged ==
    UNCHANGED <<infos, pool, requests, old_games, zobrist, static_map, initial_state, state, history, pre, clone,
                clone_history>>

\* table.store(zobrist_hash, data)
Store(zobrist_hash, data) ==
    /\ Len(calls) < MaxTableCalls
    /\ table' = TranspositionTable_store(table, zobrist_hash, data)
    /\ calls' = Append(calls, [op |-> "store", zobrist_hash |-> zobrist_hash,
                               data |-> data])
    /\ last' = [op |-> "store", zobrist_hash |-> zobrist_hash, data |-> data]
    /\ TableUnchanged

\* table.lookup(zobrist_hash)
Lookup(zobrist_hash) ==
    /\ last' = [op |-> "lookup", zobrist_hash |-> zobrist_hash,
                result |-> TranspositionTable_lookup(table, zobrist_hash)]
    /\ UNCHANGED <<table, calls>>
    /\ TableUnchanged

\* zobrist_hash in table
Contains(zobrist_hash) ==
    /\ last' = [op |-> "contains", zobrist_hash |-> zobrist_hash,
                result |-> TranspositionTable_contains(table, zobrist_hash)]
    /\ UNCHANGED <<table, calls>>
    /\ TableUnchanged

\* len(table)
TableLen ==
    /\ last' = [op |-> "len", result |-> TranspositionTable_len(table)]
    /\ UNCHANGED <<table, calls>>
    /\ TableUnchanged

\* table.clear()
Clear ==
    /\ Len(calls) < MaxTableCalls
    /\ table' = TranspositionTable_clear(table)
    /\ calls' = Append(calls, [op |-> "clear"])
    /\ last' = [op |-> "clear"]
    /\ TableUnchanged

TableNext ==
    \/ \E zobrist_hash \in TableHashes : \E data \in TableData : Store(zobrist_hash, data)
    \/ \E zobrist_hash \in TableHashes : Lookup(zobrist_hash)
    \/ \E zobrist_hash \in TableHashes : Contains(zobrist_hash)
    \/ TableLen
    \/ Clear

TableSpec == TableInit /\ [][TableNext]_vars

----------------------------------------------------------------------------
\* Vocabulary of the properties

TileIndices == 0..(static_map.num_floor_tiles - 1)

Succeeded(result) == result \in {SUCCESS_WALK, SUCCESS_PUSH, WIN}

Blocked(result) == result \in {BLOCKED_WALL, BLOCKED_BOX}

MoveSucceeded == last.op = "move" /\ Succeeded(last.result)

\* The tiles of the level's goal positions
GoalTiles ==
    {i \in TileIndices :
        \E k \in 1..Len(static_map.goal_positions) :
            static_map.goal_positions[k] = static_map.index_to_position[i]}

\* k calls of undo(), then of redo(), from the game (st, hist): the game left
RECURSIVE UndoTimes(_, _, _)
UndoTimes(st, hist, k) ==
    IF k = 0 THEN [state |-> st, history |-> hist, ok |-> TRUE]
    ELSE LET g == Game_undo(static_map, st, hist)
             rest == UndoTimes(g.state, g.history, k - 1)
         IN [state |-> rest.state, history |-> rest.history, ok |-> g.ok /\ rest.ok]

RECURSIVE RedoTimes(_, _, _)
RedoTimes(st, hist, k) ==
    IF k = 0 THEN [state |-> st, history |-> hist, ok |-> TRUE]
    ELSE LET g == Game_redo(static_map, st, hist)
             rest == RedoTimes(g.state, g.history, k - 1)
         IN [state |-> rest.state, history |-> rest.history, ok |-> g.ok /\ rest.ok]

\* The game (st, hist) is the current one in state, state hash, counters and
\* both stacks
SameGame(st, hist) ==
    /\ st = state
    /\ GameState_eq(st, state)
    /\ Game_get_state_hash(st) = Game_get_state_hash(state)
    /\ Game_move_count(hist) = Game_move_count(history)
    /\ Game_push_count(hist) = Game_push_count(history)
    /\ Game_get_move_history(hist) = Game_get_move_history(history)
    /\ hist.redo_stack = history.redo_stack

----------------------------------------------------------------------------
\* Properties

\* C1: after any sequence of move, undo, redo and reset calls the set bits of
\* box_bitboard are exactly the entries of box_indices, the player index is
\* not a box index, and the player index and every box index are valid tile
\* indices (0 <= i < num_floor_tiles, never -1).
C1_StateWellFormed ==
    /\ SetBits(state.box_bitboard) = Range(state.box_indices)
    /\ state.player_index \notin Range(state.box_indices)
    /\ state.player_index \in TileIndices
    /\ Range(state.box_indices) \subseteq TileIndices

\* A push has been undone: the box and the player have both moved back
C1_Witness ==
    /\ last.op = "undo" /\ last.ok
    /\ history.redo_stack[Len(history.redo_stack)].was_push
    /\ state.box_indices # pre.state.box_indices
    /\ history.history # <<>>

\* C2: when move(d) returns BLOCKED_WALL or BLOCKED_BOX nothing changes:
\* player index, box indices, box bitboard, move_count, push_count, the
\* executed history and the redo stack are as they were before the call.
C2_BlockedMoveChangesNothing ==
    (last.op = "move" /\ Blocked(last.result)) =>
        /\ state.player_index = pre.state.player_index
        /\ state.box_indices = pre.state.box_indices
        /\ state.box_bitboard = pre.state.box_bitboard
        /\ Game_move_count(history) = Game_move_count(pre.history)
        /\ Game_push_count(history) = Game_push_count(pre.history)
        /\ history.history = pre.history.history
        /\ history.redo_stack = pre.history.redo_stack

\* A push blocked by a box or wall behind the box, in a game with both stacks
\* non-empty
C2_Witness ==
    /\ last.op = "move" /\ last.result = BLOCKED_BOX
    /\ pre.history.history # <<>>
    /\ pre.history.redo_stack # <<>>

\* C3: after a move(d) that succeeded (walk, push or winning push), undo()
\* called immediately returns True and restores the pre-move player index and
\* box indices, and move_count and push_count.
C3_UndoRestoresMove ==
    MoveSucceeded =>
        LET u == Game_undo(static_map, state, history)
        IN /\ u.ok
           /\ u.state.player_index = pre.state.player_index
           /\ u.state.box_indices = pre.state.box_indices
           /\ u.state = pre.state
           /\ Game_move_count(u.history) = Game_move_count(pre.history)
           /\ Game_push_count(u.history) = Game_push_count(pre.history)

\* C4: from any reachable game, k successful undo() calls followed by k redo()
\* calls, and k successful redo() calls followed by k undo() calls, leave the
\* state, the state hash, move_count, push_count and the executed history as
\* before (k = 1 after a move is redo(undo(apply(s, m))) = apply(s, m)).
C4_UndoRedoIdentity ==
    /\ \A k \in 1..Len(history.history) :
          LET u == UndoTimes(state, history, k)
              r == RedoTimes(u.state, u.history, k)
          IN u.ok /\ r.ok /\ SameGame(r.state, r.history)
    /\ \A k \in 1..Len(history.redo_stack) :
          LET r == RedoTimes(state, history, k)
              u == UndoTimes(r.state, r.history, k)
          IN r.ok /\ u.ok /\ SameGame(u.state, u.history)

\* Pushes on both stacks, so both round trips move boxes
C4_Witness ==
    /\ Len(history.history) >= 2
    /\ Len(history.redo_stack) >= 1
    /\ \E k \in 1..Len(history.history) : history.history[k].was_push
    /\ \E k \in 1..Len(history.redo_stack) : history.redo_stack[k].was_push

\* C5: every successful move (SUCCESS_WALK, SUCCESS_PUSH or WIN) empties the
\* redo stack: right after it can_redo is False and redo() returns False,
\* however many undos preceded the move.
C5_MoveClearsRedo ==
    MoveSucceeded =>
        /\ history.redo_stack = <<>>
        /\ ~Game_can_redo(history)
        /\ ~Game_redo(static_map, state, history).ok

\* A successful move made with two undone moves on the redo stack
C5_Witness ==
    /\ MoveSucceeded
    /\ Len(pre.history.redo_stack) >= 2

\* C6: reset() makes the current state equal to the state at construction,
\* sets move_count and push_count to 0 and makes can_undo and can_redo False.
C6_ResetIdentity ==
    last.op = "reset" =>
        /\ GameState_eq(state, initial_state)
        /\ state.player_index = initial_state.player_index
        /\ state.box_indices = initial_state.box_indices
        /\ state.box_bitboard = initial_state.box_bitboard
        /\ Game_move_count(history) = 0
        /\ Game_push_count(history) = 0
        /\ ~Game_can_undo(history)
        /\ ~Game_can_redo(history)

\* A reset of a game whose boxes had moved and whose stacks were both non-empty
C6_Witness ==
    /\ last.op = "reset"
    /\ pre.state.box_indices # initial_state.box_indices
    /\ pre.state.player_index # initial_state.player_index
    /\ pre.history.history # <<>>
    /\ pre.history.redo_stack # <<>>
    /\ pre.history.push_count > 0

\* C7: undo() with an empty executed history returns False and changes neither
\* the state nor the redo stack; redo() with an empty redo stack returns False
\* and changes neither the state nor the executed history.
C7_EmptyUndoRedo ==
    /\ (last.op = "undo" /\ pre.history.history = <<>>) =>
          /\ ~last.ok
          /\ state = pre.state
          /\ history = pre.history
    /\ (last.op = "redo" /\ pre.history.redo_stack = <<>>) =>
          /\ ~last.ok
          /\ state = pre.state
          /\ history = pre.history

\* A redo with nothing to redo, in a game that has executed moves
C7_Witness ==
    /\ last.op = "redo"
    /\ pre.history.redo_stack = <<>>
    /\ pre.history.history # <<>>
    /\ pre.state # initial_state

\* C8: a successful push returns WIN if and only if, in the resulting state,
\* every box tile is a goal tile (the box bitboard is a subset of goal_mask),
\* and SUCCESS_PUSH otherwise.
C8_WinIffAllBoxesOnGoals ==
    (last.op = "move" /\ state.box_indices # pre.state.box_indices) =>
        /\ last.result \in {SUCCESS_PUSH, WIN}
        /\ last.result = WIN <=> Range(state.box_indices) \subseteq GoalTiles
        /\ last.result = WIN <=>
              SetBits(state.box_bitboard) \subseteq SetBits(static_map.goal_mask)
        /\ last.result = SUCCESS_PUSH <=>
              ~(Range(state.box_indices) \subseteq GoalTiles)

\* A push that puts the last of two boxes on its goal
C8_Witness ==
    /\ last.op = "move" /\ last.result = WIN
    /\ Len(state.box_indices) >= 2
    /\ ~(Range(pre.state.box_indices) \subseteq GoalTiles)
    /\ Range(pre.state.box_indices) \cap GoalTiles # {}

\* C9: in every reachable state is_solved is True if and only if every set bit
\* of the box bitboard is also set in goal_mask; a state whose box set equals
\* the goal set reports solved.
C9_SolvedIffSubset ==
    /\ Game_is_solved(static_map, state) <=>
          SetBits(state.box_bitboard) \subseteq SetBits(static_map.goal_mask)
    /\ Range(state.box_indices) = GoalTiles => Game_is_solved(static_map, state)

\* Two boxes on the two goals, reached by play
C9_Witness ==
    /\ Game_is_solved(static_map, state)
    /\ Range(state.box_indices) = GoalTiles
    /\ Len(state.box_indices) >= 2
    /\ state.box_indices # initial_state.box_indices

\* C10: for every reachable state and direction d, can_move(d) is True if and
\* only if move(d) from that state would return SUCCESS_WALK, SUCCESS_PUSH or
\* WIN; and a call of can_move changes neither the state nor the history.
C10_CanMoveAgreesWithMove ==
    /\ \A d \in Directions :
          Game_can_move(static_map, state, d) <=>
              Succeeded(Game_move(static_map, state, history, d).result)
    /\ last.op = "can_move" =>
          /\ state = pre.state
          /\ history = pre.history
          /\ last.ok <=>
                Succeeded(Game_move(static_map, state, history, last.direction).result)

\* can_move called for a push that a second box blocks
C10_Witness ==
    /\ last.op = "can_move" /\ ~last.ok
    /\ LET adjacent == get_neighbor(static_map, state.player_index, last.direction)
       IN /\ adjacent # -1
          /\ adjacent \in Range(state.box_indices)
          /\ get_neighbor(static_map, adjacent, last.direction) \in Range(state.box_indices)

\* The place of a direction in the Direction enum: UP, DOWN, LEFT, RIGHT
EnumOrder(d) == CHOOSE k \in 1..Len(Direction) : Direction[k] = d

\* C11: get_legal_moves returns exactly the directions d for which
\* can_move(d) is True in the current state, each once, in direction-enum
\* order UP, DOWN, LEFT, RIGHT; the call changes neither state nor history.
C11_LegalMovesAreCanMoves ==
    /\ LET moves == Game_get_legal_moves(static_map, state)
       IN /\ \A d \in Directions :
                d \in Range(moves) <=> Game_can_move(static_map, state, d)
          /\ Range(moves) \subseteq Directions
          /\ \A j, k \in 1..Len(moves) :
                j < k => EnumOrder(moves[j]) < EnumOrder(moves[k])
    /\ last.op = "get_legal_moves" =>
          /\ state = pre.state
          /\ history = pre.history
          /\ last.result =
                SelectSeq(<<UP, DOWN, LEFT, RIGHT>>,
                          LAMBDA d : Game_can_move(static_map, state, d))

\* get_legal_moves called where a walk and a push are legal and another
\* direction is not
C11_Witness ==
    /\ last.op = "get_legal_moves"
    /\ Len(last.result) >= 2
    /\ Len(last.result) < 4
    /\ \E k \in 1..Len(last.result) :
          get_neighbor(static_map, state.player_index, last.result[k])
              \in Range(state.box_indices)
    /\ \E k \in 1..Len(last.result) :
          get_neighbor(static_map, state.player_index, last.result[k])
              \notin Range(state.box_indices)

\* The tile index of the cell one step from a tile in direction d, read off the
\* grid: -1 when that cell is off the board or a wall
Step(tile, d) ==
    LET pos == static_map.index_to_position[tile]
        row == pos[1] + DIRECTION_DELTAS(d)[1]
        col == pos[2] + DIRECTION_DELTAS(d)[2]
    IN IF row \in 0..(static_map.height - 1) /\ col \in 0..(static_map.width - 1)
          /\ static_map.grid[row][col] # WALL
       THEN static_map.position_to_index[row][col]
       ELSE -1

\* What stands in the way of the player of state st in direction d
FacesWall(st, d) == Step(st.player_index, d) = -1

FacesStuckBox(st, d) ==
    LET adjacent == Step(st.player_index, d)
    IN /\ adjacent # -1
       /\ adjacent \in Range(st.box_indices)
       /\ \/ Step(adjacent, d) = -1
          \/ Step(adjacent, d) \in Range(st.box_indices)

\* C12: for every state and direction, move returns BLOCKED_WALL exactly when
\* the player's neighbor in that direction is the sentinel (a wall or off the
\* board), and BLOCKED_BOX exactly when that neighbor holds a box and the tile
\* beyond the box in the same direction is the sentinel or holds another box.
C12_RejectionClassified ==
    /\ \A d \in Directions :
          LET result == Game_move(static_map, state, history, d).result
          IN /\ result = BLOCKED_WALL <=> FacesWall(state, d)
             /\ result = BLOCKED_BOX <=> FacesStuckBox(state, d)
             /\ FacesWall(state, d) <=>
                   get_neighbor(static_map, state.player_index, d) = -1
    /\ last.op = "move" =>
          /\ last.result = BLOCKED_WALL <=> FacesWall(pre.state, last.direction)
          /\ last.result = BLOCKED_BOX <=> FacesStuckBox(pre.state, last.direction)

\* A move against a box that a second box holds in place, after earlier moves
C12_Witness ==
    /\ last.op = "move" /\ last.result = BLOCKED_BOX
    /\ pre.history.history # <<>>
    /\ LET adjacent == Step(pre.state.player_index, last.direction)
       IN /\ adjacent \in Range(pre.state.box_indices)
          /\ Step(adjacent, last.direction) \in Range(pre.state.box_indices)

\* C13: when move(d) returns SUCCESS_WALK the new player index is the neighbor
\* of the old player index in direction d, the box index set and the box
\* bitboard are unchanged, move_count has grown by exactly 1 and push_count
\* is unchanged.
C13_WalkEffect ==
    (last.op = "move" /\ last.result = SUCCESS_WALK) =>
        /\ state.player_index = Step(pre.state.player_index, last.direction)
        /\ state.player_index =
              static_map.neighbors[pre.state.player_index][last.direction]
        /\ state.player_index # -1
        /\ Range(state.box_indices) = Range(pre.state.box_indices)
        /\ state.box_indices = pre.state.box_indices
        /\ state.box_bitboard = pre.state.box_bitboard
        /\ Game_move_count(history) = Game_move_count(pre.history) + 1
        /\ Game_push_count(history) = Game_push_count(pre.history)

\* A walk made after a push, so push_count is positive and stays
C13_Witness ==
    /\ last.op = "move" /\ last.result = SUCCESS_WALK
    /\ Game_push_count(pre.history) > 0
    /\ Game_move_count(history) >= 2
    /\ state.player_index # pre.state.player_index

\* C14: when move(d) returns SUCCESS_PUSH or WIN exactly one box changes tile:
\* the box that was on the player's neighbor in direction d now occupies the
\* tile beyond it in direction d, the player occupies that box's old tile,
\* every other box is on the same tile as before, and move_count and
\* push_count have each grown by exactly 1.
C14_PushEffect ==
    (last.op = "move" /\ last.result \in {SUCCESS_PUSH, WIN}) =>
        LET old_box == Step(pre.state.player_index, last.direction)
            beyond == Step(old_box, last.direction)
            before == Range(pre.state.box_indices)
            after == Range(state.box_indices)
        IN /\ old_box \in before
           /\ beyond # -1
           /\ beyond \notin before
           /\ before \ after = {old_box}
           /\ after \ before = {beyond}
           /\ before \ {old_box} \subseteq after
           /\ Len(state.box_indices) = Len(pre.state.box_indices)
           /\ SetBits(state.box_bitboard) = (before \ {old_box}) \cup {beyond}
           /\ state.player_index = old_box
           /\ Game_move_count(history) = Game_move_count(pre.history) + 1
           /\ Game_push_count(history) = Game_push_count(pre.history) + 1

\* A push of the higher of two boxes, the lower one staying where it was
C14_Witness ==
    /\ last.op = "move" /\ last.result = SUCCESS_PUSH
    /\ Len(pre.state.box_indices) >= 2
    /\ pre.state.box_indices[1] = state.box_indices[1]
    /\ pre.state.box_indices # state.box_indices
    /\ pre.history.history # <<>>

\* The tiles joined to the tiles of S by steps over box-free tiles of state st
RECURSIVE WalkClosure(_, _)
WalkClosure(S, st) ==
    LET next == {t \in TileIndices \ (S \cup Range(st.box_indices)) :
                    \E d \in Directions : Step(t, d) \in S}
    IN IF next = {} THEN S ELSE WalkClosure(S \cup next, st)

\* The tiles the player of state st can walk to without moving a box
WalkableFrom(st) == WalkClosure({st.player_index}, st)

SimpleStaticMap == StaticMap_from_parsed_level(parse_level(SIMPLE_LEVEL))

\* C15: compute_reachability(static_map, player, boxes) returns exactly the
\* tiles connected to the player's tile by a path of 4-directional neighbor
\* steps through floor tiles that hold no box: it always contains the player's
\* tile, never a box tile, never a tile that boxes or walls separate from the
\* player; on the level #####/#@$.#/##### it is only the player's own tile.
C15_ReachabilityExact ==
    LET reachable == SetBits(compute_reachability(static_map, state.player_index,
                                                  state.box_bitboard))
    IN /\ reachable = WalkableFrom(state)
       /\ state.player_index \in reachable
       /\ reachable \cap Range(state.box_indices) = {}
       /\ reachable \subseteq TileIndices
       /\ (static_map = SimpleStaticMap /\ state = initial_state) =>
             reachable = {state.player_index}
       /\ last.op = "compute_reachability" =>
             /\ SetBits(last.result) = WalkableFrom(state)
             /\ state = pre.state

\* compute_reachability called where the flood fill takes several rounds and
\* boxes cut a box-free tile off from the player
C15_Witness ==
    /\ last.op = "compute_reachability"
    /\ Cardinality(SetBits(last.result)) >= 4
    /\ \E t \in SetBits(last.result) :
          \A d \in Directions : Step(t, d) # state.player_index
    /\ \E t \in TileIndices :
          /\ t \notin Range(state.box_indices)
          /\ t \notin SetBits(last.result)
          /\ \A d \in Directions :
                Step(t, d) = -1 \/ Step(t, d) \in Range(state.box_indices)
          /\ \E d \in Directions : Step(t, d) \in Range(state.box_indices)

\* The tile index of the cell one step from a tile against direction d, read
\* off the grid: where the player stands to push a box on that tile in
\* direction d; -1 when that cell is off the board or a wall
StepBack(tile, d) ==
    LET pos == static_map.index_to_position[tile]
        row == pos[1] - DIRECTION_DELTAS(d)[1]
        col == pos[2] - DIRECTION_DELTAS(d)[2]
    IN IF row \in 0..(static_map.height - 1) /\ col \in 0..(static_map.width - 1)
          /\ static_map.grid[row][col] # WALL
       THEN static_map.position_to_index[row][col]
       ELSE -1

\* The pairs (t, d) such that in state st tile t holds a box, the player can
\* walk to the tile behind it and the tile beyond it is free
LegalPushSet(st) ==
    LET walkable == WalkableFrom(st)
        reachable == SetBits(compute_reachability(static_map, st.player_index,
                                                  st.box_bitboard))
        boxes == Range(st.box_indices)
    IN {p \in TileIndices \X Directions :
           /\ p[1] \in boxes
           /\ StepBack(p[1], p[2]) # -1
           /\ StepBack(p[1], p[2]) \in walkable
           /\ StepBack(p[1], p[2]) \in reachable
           /\ Step(p[1], p[2]) # -1
           /\ Step(p[1], p[2]) \notin boxes}

\* C16: get_legal_pushes returns a pair (box tile, direction) if and only if
\* the tile holds a box, the tile on the opposite side of the box from the
\* push direction is a non-wall tile in the player's reachability set, and the
\* tile beyond the box in the push direction is a non-wall tile holding no
\* box; no pair is returned twice; on the level #####/#@$.#/##### the result
\* is exactly the single pair (box tile, RIGHT).
C16_LegalPushesExact ==
    LET pushes == Game_get_legal_pushes(static_map, state)
    IN /\ Range(pushes) = LegalPushSet(state)
       /\ Range(pushes) \subseteq TileIndices \X Directions
       /\ Cardinality(Range(pushes)) = Len(pushes)
       /\ (static_map = SimpleStaticMap /\ state = initial_state) =>
             pushes = <<(<<state.box_indices[1], RIGHT>>)>>
       /\ last.op = "get_legal_pushes" =>
             /\ last.result = pushes
             /\ state = pre.state
             /\ history = pre.history

\* get_legal_pushes called where it returns pushes, and leaves out a push
\* whose two tiles are free because the player cannot get behind the box
C16_Witness ==
    /\ last.op = "get_legal_pushes"
    /\ Len(last.result) >= 2
    /\ \E t \in Range(state.box_indices) : \E d \in Directions :
          /\ <<t, d>> \notin Range(last.result)
          /\ StepBack(t, d) # -1
          /\ StepBack(t, d) \notin Range(state.box_indices)
          /\ StepBack(t, d) # state.player_index
          /\ Step(t, d) # -1
          /\ Step(t, d) \notin Range(state.box_indices)

\* The pair p comes before the pair q: lower box tile first, and for the same
\* box tile the direction that is earlier in the enum first
PairBefore(p, q) ==
    \/ p[1] < q[1]
    \/ p[1] = q[1] /\ EnumOrder(p[2]) < EnumOrder(q[2])

\* C17: the list returned by get_legal_pushes is ordered by ascending box tile
\* index and, for equal box index, by direction-enum order UP, DOWN, LEFT,
\* RIGHT; the same (player, boxes) input always yields the same list in the
\* same order.
C17_LegalPushesOrdered ==
    /\ LET pushes == Game_get_legal_pushes(static_map, state)
       IN \A j, k \in 1..Len(pushes) :
             j < k => PairBefore(pushes[j], pushes[k])
    /\ last.op = "get_legal_pushes" =>
          /\ \A j \in 1..(Len(last.result) - 1) :
                PairBefore(last.result[j], last.result[j + 1])
          /\ last.result = get_legal_pushes(static_map, pre.state.player_index,
                                            pre.state.box_bitboard)

\* get_legal_pushes called where a lower box has a push in a later direction
\* than a higher box, and one box has pushes in two directions
C17_Witness ==
    /\ last.op = "get_legal_pushes"
    /\ \E j, k \in 1..Len(last.result) :
          /\ j < k
          /\ last.result[j][1] < last.result[k][1]
          /\ EnumOrder(last.result[j][2]) > EnumOrder(last.result[k][2])
    /\ \E j \in 1..(Len(last.result) - 1) :
          last.result[j][1] = last.result[j + 1][1]

\* What a caller sees of a game with state st and UndoStack hist: player
\* position, box positions, move_count, push_count, can_undo and can_redo
GameView(sm, st, hist) ==
    [player_position |-> sm.index_to_position[st.player_index],
     box_positions |-> [k \in 1..Len(st.box_indices) |->
                          sm.index_to_position[st.box_indices[k]]],
     player_index |-> st.player_index,
     box_indices |-> st.box_indices,
     move_count |-> Game_move_count(hist),
     push_count |-> Game_push_count(hist),
     can_undo |-> Game_can_undo(hist),
     can_redo |-> Game_can_redo(hist)]

OriginalView == GameView(static_map, state, history)

CloneView ==
    GameView(Object(clone._static_map), clone._state, Object(clone._history))

OriginalCalls == {"move", "undo", "redo", "reset"}

CloneCalls == {"clone_move", "clone_undo", "clone_redo", "clone_reset"}

\* C18: after g2 = g.clone(), every move, undo, redo or reset call on g leaves
\* g2's player position, box positions, move_count, push_count and undo/redo
\* availability unchanged, and every such call on g2 leaves g's unchanged, in
\* any interleaving of the calls.
C18_CloneIndependent ==
    [][clone # None =>
          /\ last'.op \in OriginalCalls => CloneView' = CloneView
          /\ last'.op \in CloneCalls => OriginalView' = OriginalView]_vars

\* Both games have been played since the clone was made, and differ in
\* position and in history
C18_Witness ==
    /\ clone # None
    /\ last.op \in CloneCalls
    /\ Game_move_count(history) # Game_move_count(Object(clone._history))
    /\ Game_can_redo(history) # Game_can_redo(Object(clone._history))
    /\ clone._state.box_indices # state.box_indices
    /\ clone._state.box_indices # initial_state.box_indices
    /\ state.player_index # initial_state.player_index

\* C19: a clone taken after any sequence of moves and undos has the same
\* current state (player index and box indices) as the original at the moment
\* of cloning, but a fresh, empty history: its move_count and push_count are
\* 0 and its can_undo and can_redo are False even when the original's are not.
C19_CloneStartsFresh ==
    last.op = "clone" =>
        LET clone_hist == Object(clone._history)
            clone_map == Object(clone._static_map)
        IN /\ clone._state.player_index = state.player_index
           /\ clone._state.box_indices = state.box_indices
           /\ GameState_eq(clone._state, state)
           /\ state = pre.state
           /\ Game_move_count(clone_hist) = 0
           /\ Game_push_count(clone_hist) = 0
           /\ ~Game_can_undo(clone_hist)
           /\ ~Game_can_redo(clone_hist)
           /\ Game_get_move_history(clone_hist) = <<>>
           /\ ~Game_undo(clone_map, clone._state, clone_hist).ok
           /\ ~Game_redo(clone_map, clone._state, clone_hist).ok

\* A clone taken of a game that has made a push and has undone a move
C19_Witness ==
    /\ last.op = "clone"
    /\ Game_can_undo(history)
    /\ Game_can_redo(history)
    /\ Game_push_count(history) > 0
    /\ state.box_indices # initial_state.box_indices
    /\ clone._state.box_indices # initial_state.box_indices
    /\ ~Game_can_undo(Object(clone._history))

\* C20: Game.clone() returns a game that shares, by identity, the original's
\* immutable StaticMap and the original's ZobristHasher instance
\* (clone.static_map is game.static_map and clone._zobrist is game._zobrist),
\* and no operation on either game ever changes the shared static map.
C20_CloneSharesStaticMapAndZobrist ==
    [][/\ static_map' = static_map
       /\ clone' # None =>
             /\ clone'._static_map = game'._static_map
             /\ "_zobrist" \in DOMAIN game'
             /\ "_zobrist" \in DOMAIN clone'
             /\ clone'._zobrist = game'._zobrist]_vars

\* C21: the game maintains a running Zobrist hash: after every successful
\* move, undo, redo and reset, Game.get_state_hash() equals the game's
\* ZobristHasher.hash_state(player_index, box_indices) recomputed from
\* scratch on the current state.
C21_RunningZobristHash ==
    (\/ MoveSucceeded
     \/ last.op \in {"undo", "redo"} /\ last.ok
     \/ last.op = "reset") =>
        /\ "_zobrist" \in DOMAIN game
        /\ Game_get_state_hash(state) =
               hash_state(Object(game._zobrist), state.player_index, state.box_indices)

\* C22: the canonical state and the state hash depend only on the occupancy:
\* whenever the game and its clone, each after its own calls, have the
\* player on the same tile and the same set of box tiles, their
\* get_canonical_state() are equal, their GameStates compare equal and their
\* get_state_hash() are equal; undoing a move that has just succeeded, and a
\* reset, bring the hash back to its earlier value.
C22_HashDependsOnOccupancy ==
    /\ (/\ clone # None
        /\ clone._state.player_index = state.player_index
        /\ Range(clone._state.box_indices) = Range(state.box_indices)) =>
           /\ Game_get_canonical_state(clone._state) = Game_get_canonical_state(state)
           /\ GameState_eq(clone._state, state)
           /\ Game_get_state_hash(clone._state) = Game_get_state_hash(state)
    /\ MoveSucceeded =>
           Game_get_state_hash(Game_undo(static_map, state, history).state)
               = Game_get_state_hash(pre.state)
    /\ (last.op = "clone_move" /\ Succeeded(last.result)) =>
           Game_get_state_hash(Game_undo(Object(clone._static_map), clone._state,
                                         Object(clone._history)).state)
               = Game_get_state_hash(pre.state)
    /\ last.op = "reset" =>
           Game_get_state_hash(state) = Game_get_state_hash(initial_state)

\* C23: the incremental hash updates agree with recomputation: for a hasher
\* and a state with player p and boxes B, update_walk(hash_state(p, B), p, p')
\* equals hash_state(p', B) for every tile p', and update_push(hash_state(p,
\* B), p, p', f, t) equals hash_state(p', (B - f) + t) for every f in B and t
\* not in B, the boxes given to hash_state in any order.
C23_IncrementalHash ==
    /\ last.op = "update_walk" =>
           last.result = hash_state(zobrist, last.new_player, state.box_indices)
    /\ last.op = "update_push" =>
           \A box_indices \in Orderings((Range(state.box_indices) \ {last.box_from})
                                            \cup {last.box_to}) :
               last.result = hash_state(zobrist, last.new_player, box_indices)

C23_Witness ==
    /\ last.op = "update_push"
    /\ Len(state.box_indices) = 3
    /\ last.new_player # state.player_index
    /\ last.box_from = state.box_indices[2]
    /\ last.result # hash_state(zobrist, state.player_index, state.box_indices)
    /\ last.result = hash_state(zobrist, last.new_player,
                                _update_box_indices(state.box_indices, last.box_from,
                                                    last.box_to))

\* C24: for any two orderings of one set of distinct box indices and one
\* player index, GameState.from_positions yields the same strictly ascending
\* box_indices and the same bitboard, states that compare equal and have
\* equal hashes, and ZobristHasher.hash_state yields the same value.  (The
\* state of ZobristSpec is from_positions of the descending ordering.)
C24_OrderingIrrelevant ==
    /\ last.op = "from_positions" =>
           /\ last.result.box_indices = state.box_indices
           /\ \A k \in 1..(Len(last.result.box_indices) - 1) :
                  last.result.box_indices[k] < last.result.box_indices[k + 1]
           /\ Range(last.result.box_indices) = Range(last.box_indices)
           /\ last.result.box_bitboard = state.box_bitboard
           /\ SetBits(last.result.box_bitboard) = Range(last.box_indices)
           /\ GameState_eq(last.result, state)
           /\ GameState_hash(last.result) = GameState_hash(state)
    /\ last.op = "hash_state" =>
           /\ last.result = hash_state(zobrist, state.player_index, state.box_indices)
           /\ last.result = hash_state(zobrist, state.player_index,
                                       ListOf(Range(state.box_indices)))

C24_Witness ==
    /\ last.op = "hash_state"
    /\ Len(last.box_indices) = 3
    /\ last.box_indices # state.box_indices
    /\ last.box_indices # ListOf(Range(state.box_indices))
    /\ last.result = hash_state(zobrist, state.player_index, state.box_indices)

\* C25: after any sequence of move, undo, redo and reset, the box tuple of
\* get_canonical_state() is strictly ascending, hence without duplicates,
\* and converting the state's bitboard to indices yields that same tuple.
C25_CanonicalBoxTuple ==
    LET boxes == Game_get_canonical_state(state)[2]
    IN /\ \A k \in 1..(Len(boxes) - 1) : boxes[k] < boxes[k + 1]
       /\ to_indices(state.box_bitboard) = boxes

\* an undone push that changed the rank of the box among the boxes
C25_Witness ==
    /\ last.op = "undo" /\ last.ok
    /\ \E k \in 1..Len(state.box_indices) :
          /\ state.box_indices[k] \notin Range(pre.state.box_indices)
          /\ pre.state.box_indices[k] \in Range(state.box_indices)
    /\ to_indices(state.box_bitboard) = state.box_indices

\* C26: the batch move endpoint rolls back on failure: if any step of a
\* move-path request is blocked or has an invalid direction, the request
\* fails and the game is left with exactly the player position, box
\* positions, move_count and push_count it had before the request, whatever
\* history the game already had.
\* Stated of the requests that ran alone, from their first call on the game
\* to their response: no other request called a game and no level was loaded
\* meanwhile, so the game they leave is the loaded one.
C26_MovePathRollsBack ==
    [][\A t \in Threads :
          (/\ requests[t] # None /\ requests'[t] = None
           /\ requests[t].handler = "move_path"
           /\ requests[t].before # None
           /\ last'.status_code = 400) =>
              /\ state'.player_index = requests[t].before.player_index
              /\ state'.box_indices = requests[t].before.box_indices
              /\ Game_move_count(history') = requests[t].before.move_count
              /\ Game_push_count(history') = requests[t].before.push_count]_vars

\* C27: move_count is the number of records on the executed history and
\* push_count the number of those with was_push, hence 0 <= push_count <=
\* move_count; can_undo holds exactly when move_count > 0; and the first
\* successful push of a fresh game gives move_count 1 and push_count 1.
C27_CountersMatchHistory ==
    LET executed == Game_get_move_history(history)
    IN /\ Game_move_count(history) = Len(executed)
       /\ Game_push_count(history) =
              Cardinality({k \in 1..Len(executed) : executed[k].was_push})
       /\ 0 <= Game_push_count(history)
       /\ Game_push_count(history) <= Game_move_count(history)
       /\ Game_can_undo(history) <=> Game_move_count(history) > 0
       /\ (/\ last.op = "move" /\ last.result \in {SUCCESS_PUSH, WIN}
           /\ pre.history = UndoStack
           /\ GameState_eq(pre.state, initial_state)) =>
              /\ Game_move_count(history) = 1
              /\ Game_push_count(history) = 1

\* an undone push with a walk left on the executed history
C27_Witness ==
    /\ last.op = "undo" /\ last.ok
    /\ Game_push_count(pre.history) = Game_push_count(history) + 1
    /\ Game_move_count(history) > Game_push_count(history)
    /\ Game_can_undo(history)

\* The store calls made since the last clear (since the table was made, if it
\* was never cleared), oldest first
StoresSinceClear ==
    LET clears == {k \in 1..Len(calls) : calls[k].op = "clear"}
        from == IF clears = {} THEN 1 ELSE Max(clears) + 1
    IN SubSeq(calls, from, Len(calls))

\* The positions in StoresSinceClear of the stores of a hash
StoresOf(zobrist_hash) ==
    {k \in 1..Len(StoresSinceClear) : StoresSinceClear[k].zobrist_hash = zobrist_hash}

\* C28: the transposition table is a passive map: lookup(h) returns the data
\* of the most recent store(h, .) since the last clear, or None if there is
\* none; `h in table` is True exactly when there is one; len(table) is the
\* number of distinct hashes stored since the last clear.
C28_TableIsPassiveMap ==
    /\ last.op = "lookup" =>
           last.result = IF StoresOf(last.zobrist_hash) = {} THEN None
                         ELSE StoresSinceClear[Max(StoresOf(last.zobrist_hash))].data
    /\ last.op = "contains" =>
           (last.result <=> StoresOf(last.zobrist_hash) # {})
    /\ last.op = "len" =>
           last.result = Cardinality({StoresSinceClear[k].zobrist_hash :
                                         k \in 1..Len(StoresSinceClear)})

\* a lookup of a hash stored before a clear and twice after it
C28_Witness ==
    /\ last.op = "lookup"
    /\ last.result = [depth |-> 20]
    /\ Cardinality(StoresOf(last.zobrist_hash)) = 2
    /\ StoresSinceClear[1].data = [depth |-> 10]
    /\ Len(calls) = 4
    /\ calls[1].op = "store" /\ calls[1].zobrist_hash = last.zobrist_hash
    /\ calls[2].op = "clear"

\* C29: the flood fill of compute_reachability terminates: from the player's
\* tile the reachable set only grows, within the passable tiles (the player's
\* own tile included), every pass but the last adds a tile and the loop
\* stops at the first pass that adds none, so it makes at most
\* num_floor_tiles passes; the set of the last pass is the result.
C29_FloodFillTerminates ==
    last.op = "compute_reachability" =>
        LET passable_mask == BitAndNot(static_map.floor_mask, state.box_bitboard)
            start == Shl(state.player_index)
            passes == compute_reachability_passes(start, static_map, passable_mask)
            before(k) == IF k = 1 THEN start ELSE passes[k - 1]
        IN /\ Len(passes) >= 1
           /\ Len(passes) <= static_map.num_floor_tiles
           /\ \A k \in 1..Len(passes) :
                 /\ SetBits(before(k)) \subseteq SetBits(passes[k])
                 /\ SetBits(passes[k]) \subseteq
                        SetBits(passable_mask) \cup {state.player_index}
                 /\ (passes[k] = before(k)) <=> (k = Len(passes))
           /\ last.result = passes[Len(passes)]

\* a fill of four passes, three of which add tiles
C29_Witness ==
    /\ last.op = "compute_reachability"
    /\ Len(state.box_indices) >= 1
    /\ LET passes == compute_reachability_passes(
                         Shl(state.player_index), static_map,
                         BitAndNot(static_map.floor_mask, state.box_bitboard))
       IN /\ Len(passes) = 4
          /\ bit_count(last.result) > bit_count(passes[2])
          /\ bit_count(passes[1]) > 1

\* The masks of a static map are those of its tiles and goals
MasksOfTilesAndGoals(sm) ==
    /\ \A i \in 0..(sm.num_floor_tiles + 1) :
           TestBit(sm.floor_mask, i) <=> (0 <= i /\ i < sm.num_floor_tiles)
    /\ SetBits(sm.floor_mask) = 0..(sm.num_floor_tiles - 1)
    /\ SetBits(sm.goal_mask) \subseteq SetBits(sm.floor_mask)
    /\ BitAnd(sm.goal_mask, sm.floor_mask) = sm.goal_mask
    /\ \A i \in 0..(sm.num_floor_tiles - 1) :
           TestBit(sm.goal_mask, i) <=>
               /\ sm.index_to_position[i] \in Range(sm.goal_positions)
               /\ sm.grid[sm.index_to_position[i][1]][sm.index_to_position[i][2]] = GOAL

\* C30: for the StaticMap of every level, bit i of floor_mask is set exactly
\* when 0 <= i < num_floor_tiles, goal_mask is a subset of floor_mask, and
\* bit i of goal_mask is set exactly when tile i is a goal position; no
\* operation of the game changes the masks.
C30_MasksExactAndFixed ==
    [][/\ MasksOfTilesAndGoals(static_map)
       /\ MasksOfTilesAndGoals(static_map')
       /\ static_map'.floor_mask = static_map.floor_mask
       /\ static_map'.goal_mask = static_map.goal_mask]_vars

\* a box pushed onto one of several goals, with tiles that are no goals
C30_Witness ==
    /\ last.op = "move" /\ last.result = SUCCESS_PUSH
    /\ BitAnd(state.box_bitboard, static_map.goal_mask) # 0
    /\ bit_count(static_map.goal_mask) >= 2
    /\ static_map.goal_mask # static_map.floor_mask
    /\ static_map.floor_mask = Shl(static_map.num_floor_tiles) - 1

\* The cells of the static map's grid that are no walls
NonWallCells ==
    {pos \in (0..(static_map.height - 1)) \X (0..(static_map.width - 1)) :
        static_map.grid[pos[1]][pos[2]] # WALL}

\* The place of a cell in the row-major scan of the grid
ScanOrder(pos) == pos[1] * static_map.width + pos[2]

\* C31: the tile indices 0..n-1 are assigned in row-major order to exactly
\* the non-wall cells, and the neighbor table is exact: get_neighbor(i, d) is
\* the tile index of the cell next to i's cell in direction d when that cell
\* is in bounds and no wall, and the sentinel -1 otherwise.
C31_TileIndexAndNeighborsExact ==
    /\ static_map.num_floor_tiles = Cardinality(NonWallCells)
    /\ DOMAIN static_map.index_to_position = TileIndices
    /\ {static_map.index_to_position[i] : i \in TileIndices} = NonWallCells
    /\ \A i, j \in TileIndices :
           i < j => ScanOrder(static_map.index_to_position[i])
                        < ScanOrder(static_map.index_to_position[j])
    /\ \A row \in 0..(static_map.height - 1) : \A col \in 0..(static_map.width - 1) :
           IF <<row, col>> \in NonWallCells
           THEN /\ static_map.position_to_index[row][col] \in TileIndices
                /\ static_map.index_to_position[static_map.position_to_index[row][col]]
                       = <<row, col>>
           ELSE static_map.position_to_index[row][col] = -1
    /\ \A i \in TileIndices : \A d \in Directions :
           LET pos == static_map.index_to_position[i]
               next == <<pos[1] + DIRECTION_DELTAS(d)[1], pos[2] + DIRECTION_DELTAS(d)[2]>>
               j == get_neighbor(static_map, i, d)
           IN IF next \in NonWallCells
              THEN j \in TileIndices /\ static_map.index_to_position[j] = next
              ELSE j = -1

\* a move made on a map with a tile on the first row of the grid (nothing is
\* above it), a tile next to a wall inside the grid, and walls between tiles
\* in the row-major scan
C31_Witness ==
    /\ MoveSucceeded
    /\ \E i \in TileIndices :
          /\ static_map.index_to_position[i][1] = 0
          /\ get_neighbor(static_map, i, UP) = -1
          /\ get_neighbor(static_map, i, DOWN) \in TileIndices
    /\ \E i \in TileIndices :
          /\ static_map.index_to_position[i][2] > 0
          /\ get_neighbor(static_map, i, LEFT) = -1
    /\ get_neighbor(static_map, pre.state.player_index, last.direction) = state.player_index

\* C34: the neighbor table is symmetric: if get_neighbor(i, d) = j and j is
\* not the sentinel, then get_neighbor(j, opposite(d)) = i.
C34_NeighborsSymmetric ==
    \A i \in TileIndices : \A d \in Directions :
        LET j == get_neighbor(static_map, i, d)
        IN j # -1 =>
               /\ j \in TileIndices
               /\ get_neighbor(static_map, j, opposite_direction(d)) = i

\* an undo that found the player's previous tile through the opposite neighbor
C34_Witness ==
    /\ last.op = "undo" /\ last.ok
    /\ LET record == history.redo_stack[Len(history.redo_stack)]
       IN /\ state.player_index =
                 get_neighbor(static_map, pre.state.player_index,
                              opposite_direction(record.direction))
          /\ get_neighbor(static_map, state.player_index, record.direction)
                 = pre.state.player_index
          /\ record.direction \in {UP, DOWN}

\* C32: the initial state of every level Game(...) accepts is valid: the
\* player's cell and every box's cell are non-wall cells after the exterior
\* floor has been turned into wall, so the initial player index and box
\* indices are tile indices, never -1; also for levels whose player stands on
\* floor connected to the grid boundary.
C32_InitialStateValid ==
    /\ initial_state.player_index \in TileIndices
    /\ \A k \in 1..Len(initial_state.box_indices) :
          initial_state.box_indices[k] \in TileIndices

\* C33: the number of boxes is conserved: after any move, undo, redo or reset
\* num_boxes, and the number of bits set in the box bitboard, equals the
\* number of boxes of the initial level, which equals the number of goals.
C33_BoxCountConserved ==
    /\ Game_num_boxes(state) = Game_num_boxes(initial_state)
    /\ count_boxes(state.box_bitboard) = Game_num_boxes(initial_state)
    /\ Game_num_boxes(initial_state) = Len(static_map.goal_positions)
    /\ Game_num_boxes(initial_state) = bit_count(static_map.goal_mask)

\* a push of one of several boxes has been taken back, or redone
C33_Witness ==
    /\ last.op \in {"undo", "redo"} /\ last.ok
    /\ pre.state.box_bitboard # state.box_bitboard
    /\ Game_num_boxes(state) >= 2
    /\ history.redo_stack # <<>>

\* C35: redo is the same as applying the move again: wherever can_redo
\* holds, with r the record on top of the redo stack, apply_move in
\* r.direction succeeds, is a push exactly when r.was_push, and gives the
\* state redo() gives; redo never replays a record where the move would be
\* blocked.
C35_RedoIsReapply ==
    Game_can_redo(history) =>
        LET r == history.redo_stack[Len(history.redo_stack)]
            m == apply_move(static_map, state, r.direction)
            g == Game_redo(static_map, state, history)
        IN /\ Succeeded(m.result)
           /\ (m.result \in {SUCCESS_PUSH, WIN}) <=> r.was_push
           /\ g.ok
           /\ m.new_state = g.state
           /\ GameState_eq(m.new_state, g.state)

\* two moves were undone, the first of them a push, and one was redone; the
\* record now on top of the redo stack is a walk
C35_Witness ==
    /\ last.op = "redo" /\ last.ok
    /\ Game_can_redo(history)
    /\ ~history.redo_stack[Len(history.redo_stack)].was_push
    /\ history.history # <<>>
    /\ history.history[Len(history.history)].was_push

\* Game(level).move(r.direction) for every record r of `records` in order;
\* ok is whether every move succeeded and pushed exactly when its record says
RECURSIVE ReplayOnFreshGame(_, _, _)
ReplayOnFreshGame(st, hist, records) ==
    IF records = <<>> THEN [state |-> st, history |-> hist, ok |-> TRUE]
    ELSE LET g == Game_move(static_map, st, hist, Head(records).direction)
             rest == ReplayOnFreshGame(g.state, g.history, Tail(records))
         IN [state |-> rest.state,
             history |-> rest.history,
             ok |-> /\ Succeeded(g.result)
                    /\ (g.result \in {SUCCESS_PUSH, WIN}) <=> Head(records).was_push
                    /\ rest.ok]

\* C36: the executed history explains the current state: replaying the
\* directions of get_move_history() with Game.move on a fresh game succeeds
\* at every step, pushes exactly when was_push is set, and ends in the current
\* state; and calling undo() until it returns False ends in the initial state.
C36_HistoryExplainsState ==
    LET records == Game_get_move_history(history)
        fresh == ReplayOnFreshGame(GameState_copy(initial_state), UndoStack, records)
        back == UndoTimes(state, history, Len(records))
    IN /\ fresh.ok
       /\ fresh.state = state
       /\ Game_get_move_history(fresh.history) = records
       /\ back.ok
       /\ ~Game_undo(static_map, back.state, back.history).ok
       /\ back.state = initial_state

\* The states Game.move reaches from the states of S by calls that all return
\* SUCCESS_WALK
RECURSIVE WalkStates(_)
WalkStates(S) ==
    LET next == {apply_move(static_map, s[1], s[2]).new_state :
                    s \in {p \in S \X Directions :
                              apply_move(static_map, p[1], p[2]).result = SUCCESS_WALK}}
    IN IF next \subseteq S THEN S ELSE WalkStates(S \cup next)

\* The pairs (b, d) for which some sequence of walks from state st can be
\* followed by a move(d) that returns SUCCESS_PUSH or WIN and takes the box on
\* tile b to the neighbor of b in direction d
PlayPushes(st) ==
    LET walks == WalkStates({st})
        \* the box move(d) pushes from state s, and where it goes
        pushed(s, d) ==
            LET m == apply_move(static_map, s, d)
                box_from == get_neighbor(static_map, s.player_index, d)
                box_to == get_neighbor(static_map, box_from, d)
            IN IF /\ m.result \in {SUCCESS_PUSH, WIN}
                  /\ has_box_at(s, box_from)
                  /\ ~has_box_at(m.new_state, box_from)
                  /\ ~has_box_at(s, box_to)
                  /\ has_box_at(m.new_state, box_to)
               THEN {<<box_from, d>>}
               ELSE {}
    IN UNION {pushed(p[1], p[2]) : p \in walks \X Directions}

\* C37: push enumeration agrees with play: in every reachable state (b, d) is
\* in get_legal_pushes() if and only if there is a sequence of Game.move calls
\* that all return SUCCESS_WALK, followed by one move(d) that returns
\* SUCCESS_PUSH or WIN and moves the box on tile b to its neighbor in
\* direction d.
C37_PushesAgreeWithPlay ==
    /\ ~Game_get_legal_pushes_raises(state)
    /\ Range(Game_get_legal_pushes(static_map, state)) = PlayPushes(state)

\* C38: compute_reachability_fast returns the same bitboard as
\* compute_reachability for every static map, valid player tile and box
\* bitboard that does not contain the player's tile, and it terminates: every
\* frontier of its outer loop is non-empty and holds only tiles no earlier
\* frontier held, so there are at most as many as there are tiles.
C38_FastReachabilityAgrees ==
    LET slow == compute_reachability(static_map, state.player_index,
                                     state.box_bitboard)
        fast == compute_reachability_fast(static_map, state.player_index,
                                          state.box_bitboard)
        run == compute_reachability_fast_frontiers(
                   static_map, BitAndNot(static_map.floor_mask, state.box_bitboard),
                   Shl(state.player_index), Shl(state.player_index))
    IN /\ ~has_box_at(state, state.player_index)
       /\ fast = slow
       /\ SetBits(fast) = WalkableFrom(state)
       /\ run.reachable = fast
       /\ Len(run.frontiers) <= static_map.num_floor_tiles
       /\ \A j, k \in 1..Len(run.frontiers) :
             /\ run.frontiers[j] # 0
             /\ j < k => BitAnd(run.frontiers[j], run.frontiers[k]) = 0
       /\ last.op = "compute_reachability_fast" =>
             /\ last.result = slow
             /\ state = pre.state

\* compute_reachability_fast called where its outer loop runs three times or
\* more and boxes keep the player from some box-free tile
C38_Witness ==
    /\ last.op = "compute_reachability_fast"
    /\ Len(compute_reachability_fast_frontiers(
               static_map, BitAndNot(static_map.floor_mask, state.box_bitboard),
               Shl(state.player_index), Shl(state.player_index)).frontiers) >= 3
    /\ \E t \in TileIndices :
          /\ ~has_box_at(state, t)
          /\ ~TestBit(last.result, t)

\* C39: whenever Game.move returns WIN, is_solved is True immediately
\* afterwards; whenever a move changes is_solved from False to True, it
\* returned WIN; a walk never returns WIN and never changes is_solved or
\* boxes_on_goals, even in a state that is already solved.
C39_WinIffSolvedByPush ==
    last.op = "move" =>
        LET solved_before == Game_is_solved(static_map, pre.state)
            solved_after == Game_is_solved(static_map, state)
            walked == /\ Succeeded(last.result)
                      /\ state.box_bitboard = pre.state.box_bitboard
        IN /\ last.result = WIN => solved_after
           /\ (~solved_before /\ solved_after) => last.result = WIN
           /\ walked <=> last.result = SUCCESS_WALK
           /\ walked =>
                 /\ solved_after = solved_before
                 /\ Game_boxes_on_goals(static_map, state)
                        = Game_boxes_on_goals(static_map, pre.state)
           /\ last.result = WIN =>
                 /\ state.box_bitboard # pre.state.box_bitboard
                 /\ history.history[Len(history.history)].was_push

\* a walk in a state that an earlier push of this game solved
C39_Witness ==
    /\ last.op = "move" /\ last.result = SUCCESS_WALK
    /\ Game_is_solved(static_map, state)
    /\ ~Game_is_solved(static_map, initial_state)
    /\ Game_push_count(history) >= 1

\* The object a field refers to after a step
ObjectAfter(name) ==
    CASE name = "static_map" -> static_map'
      [] name = "initial_state" -> initial_state'
      [] name = "history" -> history'
      [] name = "clone_history" -> clone_history'
      [] name = "state" -> state'

\* C40: reset() on a clone returns the clone to the level's original initial
\* state, not to the state it had when clone() was called, and no call on the
\* original or on the clone ever changes the initial state they share.
C40_CloneResetsToInitialState ==
    [][/\ initial_state' = initial_state
       /\ clone' # None =>
             /\ clone'._initial_state = game'._initial_state
             /\ ObjectAfter(clone'._initial_state) = initial_state
       /\ last'.op = "clone_reset" =>
             /\ clone'._state = initial_state
             /\ GameState_eq(clone'._state, initial_state)
             /\ Game_move_count(ObjectAfter(clone'._history)) = 0
             /\ state' = state
       /\ last'.op = "reset" =>
             /\ state' = initial_state
             /\ clone' = clone]_vars

\* reset() called on a clone that was taken after the original had pushed a
\* box, before the clone made any move of its own
C40_Witness ==
    /\ last.op = "clone_reset"
    /\ pre.history = UndoStack
    /\ pre.state # initial_state
    /\ pre.state.box_indices # initial_state.box_indices
    /\ clone._state = initial_state
    /\ state # initial_state

====
